---- MODULE Spec2Model ----
(***************************************************************************)
(* Model of the loudframe device manager: the network scanner and its      *)
(* device-map merge (device_scanner.py), and the batch dispatchers          *)
(* (batch_controller.py, file_manager.py).                                  *)
(*                                                                          *)
(* A Python dict is modelled as a sequence of entries [k |-> key, v |->     *)
(* value] in insertion order; a device record is a function from field      *)
(* names to values.  MAC addresses, logical ids and IP addresses are        *)
(* numbered; the string 'UNKNOWN' that scan_device substitutes for a field  *)
(* the device does not report is the number UNKNOWN.                        *)
(***************************************************************************)
EXTENDS Integers, Sequences, FiniteSets, TLC

VARIABLES
    \* a call of merge_device_maps: its arguments, its position, what it returned
    argMode, argExisting, argNew, mergePc, retMerged

VARIABLES
    \* the device map file: <<>> when absent, else <<snapshot>>
    mapFile,
    \* wall clock (datetime.now), advanced between scanner runs
    now,
    \* position of the scanner run: idle, load, scan, gather, merge, save,
    \* done, failed
    pc,
    \* the DeviceScanner object
    mode, concurrent_limit, discovered_devices, scan_stats,
    \* locals of run and scan_network: existing_map, the loop index i (as
    \* batchStart), the merged map
    existing_map, batchStart, final_map,
    \* the batch being gathered: addresses whose probe has not completed, and
    \* what each completed probe returned (<<>> for None, else <<device_info>>)
    inflight, results,
    \* the MACs (UNKNOWN included) returned by the 200 responses of this run
    probedOk,
    \* the MACs persisted by the completed runs of the current sequence of add
    \* runs, which starts with the file a create or update run left
    persistedSince,
    \* per address, the scan_device calls of this run in order: "inflight"
    \* while the call runs, then how it ended (found, none, error)
    probeLog,
    \* the progress lines scan_batch logged in this run, in order: the
    \* scanned count and the total
    progress

VARIABLES
    \* a batch dispatch: which dispatcher runs (BatchController.batch_request
    \* or FileManager.process_devices_batch), its device list, how each device
    \* answers, and the dispatcher's concurrent_limit
    dispatcher, targets, behaviour, batch_limit,
    \* position of the dispatch (none, start, gather, returned), the loop index
    \* i of process_devices_batch (as windowStart), and the time elapsed since
    \* the tasks being gathered were created
    bpc, windowStart, clock,
    \* per device: the state of its task (unstarted, queued for a connection,
    \* connected, done), when it connected, and its result once done
    tasks,
    \* the list the dispatcher has collected
    batch_results

VARIABLES
    \* a POST /api/batch/play request: its action and device_ids, and the
    \* ids the server's registry knows
    action, device_ids, registry_ids,
    \* position of batch_control_playback (none, device, track, responded),
    \* the index of the device_id being handled, the loop variable track and
    \* the flag device_success
    ppc, dev_idx, track, device_success,
    \* the results list of the response
    api_results,
    \* per handled device_id, the sub-operations issued to the device in
    \* order: endpoint, track and how the request ended
    subops

VARIABLES
    \* an id_manager.py invocation: the command, the position in it (none,
    \* call, scan, check, confirm, assign, returned) and what the method
    \* returned (<<>> while it runs or when it returns None)
    command, id_pc, id_ret,
    \* IDManager.devices, as load_device_map read them from the map file
    id_devices,
    \* arguments: --mac, --new-id, --prefix, --start-num, --network (valid or
    \* not) and provision_single_device's concurrent_limit
    mac_address, new_id, prefix, start_num, network_range, prov_limit,
    \* auto_assign_ids: the plan, the operator's answer to the prompt (<<>>
    \* until asked), the index of the next assignment and the tally
    assignments, confirm_response, assign_idx, success_count,
    \* provision_single_device: the loop index i (as prov_i), the devices
    \* found, and the addresses that answered the probe with a 200
    prov_i, found_devices, responders,
    \* every probe (GET /api/status) and every ID change (POST /api/id) sent,
    \* in order
    probes_sent, id_posts,
    \* the warnings set_device_id logged
    warnings

VARIABLES
    \* what find_duplicates returned: the dict {id: devices}
    duplicates,
    \* an operation addressed by logical id: the tool that runs it (none,
    \* id_manager, device_controller, scape_server), the id, the device list
    \* of the map file the tool loaded, and the position (none, call, returned)
    lookup_tool, device_id, map_devices, lookup_pc,
    \* the device the operation goes on with, as selected (<<>> for None) and the errors
    \* it logged
    selected, lookup_errors

VARIABLES
    \* the server's device registry: the DeviceRegistry class in use
    \* (network_wrapper, which app.py imports, or network_scanner), the
    \* registry file (<<>> when absent, else <<JSON object>>) and the dict
    \* self.devices
    registry_class, registry_file, registry_devices,
    \* the last registry operation or request handled, and for a request the
    \* HTTP status of the response (0 when none)
    server_op, http_status

VARIABLES
    \* a save_device_map call seen from a reader of the file: the JSON object
    \* the file held before the call (<<>> when it was absent), the object
    \* being written, and the position of the writer (none, start, open,
    \* closed, crashed)
    previous, output, save_pc,
    \* the file: <<>> when absent, else the first `pieces` pieces of the
    \* JSON text of the object `of`
    disk,
    \* what the readers that loaded the file so far got, in order
    observed

VARIABLES
    \* a batch_controller run: the device list of the map file (<<>> when
    \* the file is absent, else <<list>>), the --all-devices flag and the
    \* --filter-id pattern (<<>> when not given, else <<the ids it matches>>)
    map_data, all_devices, filter_id,
    \* the position of main (none, start, loaded, filtered, dispatch, exited), the
    \* list self.devices, main's local list `devices`, the devices the
    \* command was run on and the exit status (0 while none)
    filter_pc, controller_devices, devices_local, dispatch_targets, exit_code

filterVars == <<map_data, all_devices, filter_id, filter_pc,
                controller_devices, devices_local, dispatch_targets,
                exit_code>>
VARIABLES
    \* scan cycles the server starts on its device map file, each one run of
    \* device_scanner.py in add mode: the file (<<>> when absent, else
    \* <<JSON object>>), whether the cycles are the networks of one
    \* scan_all_networks call (one after the other) or belong to scans of
    \* different threads, and per cycle the MACs that answer its probes
    device_map_file, sequential, cycle_answers,
    \* per cycle its position (waiting, loaded, scanned, exited, failed), the
    \* existing_map it loaded and the devices it discovered
    cycle_pc, cycle_existing, cycle_discovered

cycleVars == <<device_map_file, sequential, cycle_answers, cycle_pc,
               cycle_existing, cycle_discovered>>
VARIABLES
    \* the server's automatic scanning: the global scan_active, and the
    \* position of every background_scan thread started so far (check,
    \* scanning, sleeping, ended), the last one being scan_thread
    scan_active, loop_pc

autoVars == <<scan_active, loop_pc>>
VARIABLES
    \* GET /api/devices on the server: the device map file (<<>> when absent,
    \* else <<JSON object>>), the dict objects the registry holds (the
    \* object with reference r is registry_heap[r]) and the registry's dict
    \* self.devices {id: reference}
    list_file, registry_heap, registry_refs,
    \* the position of the handler (idle, probing), the number of requests
    \* begun, its list `devices` (references), the index of the device it
    \* probes next and, for the devices probed in this request, the
    \* outcome of the status probe and the online flag before it
    list_pc, listings, listed, list_idx, probe_outcomes

listVars == <<list_file, registry_heap, registry_refs, list_pc, listings,
              listed, list_idx, probe_outcomes>>
VARIABLES
    \* a quick_scan call: the device map file (<<>> when absent, else <<JSON
    \* object>>) and what it was when the call began, the addresses asked
    \* for, the MACs of the devices that answer a probe
    quick_file, quick_before, device_ips, quick_answers,
    \* the position of the call (none, call, scanning, returned), the
    \* subnets still to scan and the list all_devices
    quick_pc, subnets, quick_result

quickVars == <<quick_file, quick_before, device_ips, quick_answers, quick_pc,
               subnets, quick_result>>
VARIABLES
    \* merge_device_maps called twice, the second time on its own result:
    \* the dict objects of the records (the object with reference r is
    \* objects[r]), the mode, the dicts `existing` and `new` of the first
    \* call ({mac: reference}) and the position (none, call, once, twice)
    objects, remerge_mode, remerge_existing, remerge_new, remerge_pc,
    \* the dict the first call returned, what it held when the call
    \* returned, and what the second call returned
    returned_map, first_result, second_result

remergeVars == <<objects, remerge_mode, remerge_existing, remerge_new,
                 remerge_pc, returned_map, first_result, second_result>>
persistVars == <<previous, output, save_pc, disk, observed>>
serverVars == <<registry_class, registry_file, registry_devices, server_op,
                http_status>>
lookupVars == <<duplicates, lookup_tool, device_id, map_devices, lookup_pc,
                selected, lookup_errors>>
idVars == <<command, id_pc, id_ret, id_devices, mac_address, new_id, prefix,
            start_num, network_range, prov_limit, assignments,
            confirm_response, assign_idx, success_count, prov_i,
            found_devices, responders, probes_sent, id_posts, warnings>>
playVars == <<action, device_ids, registry_ids, ppc, dev_idx, track,
              device_success, api_results, subops>>
batchVars == <<dispatcher, targets, behaviour, batch_limit, bpc, windowStart,
               clock, tasks, batch_results>>
mergeVars == <<argMode, argExisting, argNew, mergePc, retMerged>>
scanVars == <<mapFile, now, pc, mode, concurrent_limit, discovered_devices,
              scan_stats, existing_map, batchStart, final_map, inflight,
              results, probedOk, persistedSince, probeLog, progress>>
vars == <<mergeVars, scanVars, batchVars, playVars, idVars, lookupVars, serverVars, persistVars, filterVars, cycleVars, autoVars, listVars, quickVars, remergeVars>>

\* ------------------------------------------------------------------ bounds
NumMacs == 2
NumIps == 2
\* devices on the scanned network that report a MAC address
NumScanMacs == 1
\* the last clock value at which a scanner run may start
MaxTime == 2
\* devices in a batch dispatch
NumTargets == 4
\* the request timeout (self.timeout), in units of the time a healthy device
\* takes to answer a request
Timeout == 2

\* logical ids in use
NumIds == 2
\* devices in the map file id_manager reads
NumIdMacs == 3
\* devices in the server's registry
NumPlayDevices == 1
\* the most device_ids a batch playback request names
MaxDeviceIds == 2

\* ------------------------------------------------------- program constants
UNKNOWN == 0
\* range(3): the tracks of a device
NumTracks == 3

MACs == 1..NumMacs
IPs == 1..NumIps
Modes == {"create", "add", "update"}
AllModes == Modes \cup {"invalid"}

\* ------------------------------------------------------------ Python dicts
Keys(d) == {d[i].k : i \in DOMAIN d}

Values(d) == [i \in DOMAIN d |-> d[i].v]

IndexOf(d, key) == CHOOSE i \in DOMAIN d : d[i].k = key

GetItem(d, key) == d[IndexOf(d, key)].v

\* d[key] = val: an existing key keeps its position, a new key is appended
SetItem(d, key, val) ==
    IF key \in Keys(d)
    THEN [d EXCEPT ![IndexOf(d, key)] = [k |-> key, v |-> val]]
    ELSE Append(d, [k |-> key, v |-> val])

\* rec[field] = val on a record
SetField(rec, field, val) ==
    [f \in DOMAIN rec \cup {field} |-> IF f = field THEN val ELSE rec[f]]

\* rec.update(other): other's fields overwrite, the rest of rec is kept
Update(rec, other) ==
    [f \in DOMAIN rec \cup DOMAIN other |->
        IF f \in DOMAIN other THEN other[f] ELSE rec[f]]

\* data.get(field, default)
Get(data, field, default) ==
    IF field \in DOMAIN data THEN data[field] ELSE default

\* ------------------------------------------------------------- scan_device
\* the device_info record scan_device builds from a 200 response with JSON
\* body `data`, probed at address ip at time t
device_info(ip, data, t) ==
    [ip_address |-> ip,
     mac_address |-> Get(data, "mac_address", UNKNOWN),
     id |-> Get(data, "id", UNKNOWN),
     wifi_connected |-> Get(data, "wifi_connected", FALSE),
     firmware_version |-> Get(data, "firmware_version", UNKNOWN),
     uptime_seconds |-> Get(data, "uptime_seconds", 0),
     last_seen |-> t,
     online |-> TRUE]

\* ------------------------------------------------------- merge_device_maps
\* mutant: the offline marking is left out
MarkAllOffline_Skipped(merged) == merged

\* mutant: the offline marking replaces the record instead of setting one field
MarkAllOffline_ResetsRecord(merged) ==
    [i \in DOMAIN merged |-> [k |-> merged[i].k, v |-> [online |-> FALSE]]]

\* mutant: the offline marking flips the flag
MarkAllOffline_Toggles(merged) ==
    [i \in DOMAIN merged |->
        [k |-> merged[i].k,
         v |-> SetField(merged[i].v, "online", ~merged[i].v.online)]]

\* for mac in merged: merged[mac]['online'] = False
MarkAllOffline(merged) ==
    [i \in DOMAIN merged |->
        [k |-> merged[i].k, v |-> SetField(merged[i].v, "online", FALSE)]]

\* mutant: a known MAC's record is replaced by the discovered one
AddOne_Replaces(merged, mac, device) == SetItem(merged, mac, device)

\* one iteration of the add loop over new.items()
AddOne(merged, mac, device) ==
    IF mac \in Keys(merged)
    THEN SetItem(merged, mac, Update(GetItem(merged, mac), device))
    ELSE SetItem(merged, mac, device)

\* mutant: update inserts an unknown MAC as add does
UpdateOne_Inserts(merged, mac, device) ==
    IF mac \in Keys(merged)
    THEN SetItem(merged, mac, Update(GetItem(merged, mac), device))
    ELSE SetItem(merged, mac, device)

\* mutant: update replaces a known MAC's record instead of merging its fields
UpdateOne_Replaces(merged, mac, device) ==
    IF mac \in Keys(merged) THEN SetItem(merged, mac, device) ELSE merged

\* one iteration of the update loop over new.items()
UpdateOne(merged, mac, device) ==
    IF mac \in Keys(merged)
    THEN SetItem(merged, mac, Update(GetItem(merged, mac), device))
    ELSE merged

RECURSIVE AddLoop(_, _, _)
AddLoop(merged, new, i) ==
    IF i > Len(new) THEN merged
    ELSE AddLoop(AddOne(merged, new[i].k, new[i].v), new, i + 1)

RECURSIVE UpdateLoop(_, _, _)
UpdateLoop(merged, new, i) ==
    IF i > Len(new) THEN merged
    ELSE UpdateLoop(UpdateOne(merged, new[i].k, new[i].v), new, i + 1)

\* mutant: create keeps the existing records next to the discovered ones
MergeCreate_KeepsExisting(existing, new) == AddLoop(existing, new, 1)

MergeCreate(existing, new) == new

MergeAdd(existing, new) == AddLoop(MarkAllOffline(existing), new, 1)

\* mutant: update does not mark the existing records offline
MergeUpdate_NoOffline(existing, new) == UpdateLoop(existing, new, 1)

MergeUpdate(existing, new) == UpdateLoop(MarkAllOffline(existing), new, 1)

\* the value merge_device_maps returns for a valid mode
merge_device_maps(m, existing, new) ==
    CASE m = "create" -> MergeCreate(existing, new)
      [] m = "add" -> MergeAdd(existing, new)
      [] m = "update" -> MergeUpdate(existing, new)

\* ------------------------------------------------- inputs of a merge call
\* the JSON body of a device's /api/status response
StatusData(mac, id) ==
    [mac_address |-> mac, id |-> id, wifi_connected |-> TRUE,
     firmware_version |-> 1, uptime_seconds |-> 1]

\* records an existing map can hold for a MAC: what an earlier scan stored
\* (online or offline), or such a record carrying a further field
ExistingRecords(mac) ==
    LET stored == device_info(1, StatusData(mac, 1), 0)
    IN  {stored,
         SetField(stored, "online", FALSE),
         SetField(stored, "notes", 1)}

\* records a scan discovers for a MAC: scan_device's device_info
DiscoveredRecords(mac) ==
    {device_info(ip, StatusData(mac, 2), 1) : ip \in IPs}

\* the dicts {mac: record} with the record of mac drawn from recs[mac], in
\* every key order
DictsOver(recs) ==
    LET Entries == UNION {{[k |-> m, v |-> r] : r \in recs[m]} : m \in MACs}
        Seqs == UNION {[1..n -> Entries] : n \in 0..NumMacs}
    IN  {d \in Seqs : \A i, j \in DOMAIN d : i # j => d[i].k # d[j].k}

\* no merge call is being examined
MergeIdle ==
    /\ argMode = "create"
    /\ argExisting = <<>>
    /\ argNew = <<>>
    /\ mergePc = "none"
    /\ retMerged = <<>>

\* no scanner is running and there is no map file
ScanIdle ==
    /\ mapFile = <<>>
    /\ now = 0
    /\ pc = "idle"
    /\ mode = "create"
    /\ concurrent_limit = 1
    /\ discovered_devices = <<>>
    /\ scan_stats = [total_ips |-> 0, scanned |-> 0, found |-> 0, errors |-> 0]
    /\ existing_map = <<>>
    /\ batchStart = 0
    /\ final_map = <<>>
    /\ inflight = {}
    /\ results = <<>>
    /\ probedOk = {}
    /\ persistedSince = {}
    /\ probeLog = [ip \in IPs |-> <<>>]
    /\ progress = <<>>

\* no batch dispatch is running
BatchIdle ==
    /\ dispatcher = "none"
    /\ targets = <<>>
    /\ behaviour = <<>>
    /\ batch_limit = 1
    /\ bpc = "none"
    /\ windowStart = 0
    /\ clock = 0
    /\ tasks = <<>>
    /\ batch_results = <<>>

\* no batch playback request is being handled
PlayIdle ==
    /\ action = "play"
    /\ device_ids = <<>>
    /\ registry_ids = {}
    /\ ppc = "none"
    /\ dev_idx = 0
    /\ track = 0
    /\ device_success = TRUE
    /\ api_results = <<>>
    /\ subops = <<>>

\* id_manager.py is not running
IdIdle ==
    /\ command = "none"
    /\ id_pc = "none"
    /\ id_ret = <<>>
    /\ id_devices = <<>>
    /\ mac_address = <<>>
    /\ new_id = <<>>
    /\ prefix = 0
    /\ start_num = 1
    /\ network_range = "valid"
    /\ prov_limit = 1
    /\ assignments = <<>>
    /\ confirm_response = <<>>
    /\ assign_idx = 1
    /\ success_count = 0
    /\ prov_i = 0
    /\ found_devices = <<>>
    /\ responders = {}
    /\ probes_sent = <<>>
    /\ id_posts = <<>>
    /\ warnings = <<>>

\* the server has started no scan cycle
CycleIdle ==
    /\ device_map_file = <<>>
    /\ sequential = TRUE
    /\ cycle_answers = <<>>
    /\ cycle_pc = <<>>
    /\ cycle_existing = <<>>
    /\ cycle_discovered = <<>>

\* automatic scanning was never started
AutoIdle ==
    /\ scan_active = FALSE
    /\ loop_pc = <<>>

\* the server has handled no device listing
ListIdle ==
    /\ list_file = <<>>
    /\ registry_heap = <<>>
    /\ registry_refs = <<>>
    /\ list_pc = "none"
    /\ listings = 0
    /\ listed = <<>>
    /\ list_idx = 0
    /\ probe_outcomes = <<>>

\* no quick scan was asked for
QuickIdle ==
    /\ quick_file = <<>>
    /\ quick_before = <<>>
    /\ device_ips = {}
    /\ quick_answers = {}
    /\ quick_pc = "none"
    /\ subnets = <<>>
    /\ quick_result = <<>>

\* merge_device_maps is not being called twice
RemergeIdle ==
    /\ objects = <<>>
    /\ remerge_mode = "create"
    /\ remerge_existing = <<>>
    /\ remerge_new = <<>>
    /\ remerge_pc = "none"
    /\ returned_map = <<>>
    /\ first_result = <<>>
    /\ second_result = <<>>

\* no write of the map file is under way
PersistIdle ==
    /\ previous = <<>>
    /\ output = <<>>
    /\ save_pc = "none"
    /\ disk = <<>>
    /\ observed = <<>>

\* the server is not running
ServerIdle ==
    /\ registry_class = "none"
    /\ registry_file = <<>>
    /\ registry_devices = <<>>
    /\ server_op = "none"
    /\ http_status = 0

\* no batch_controller run
FilterIdle ==
    /\ map_data = <<>>
    /\ all_devices = FALSE
    /\ filter_id = <<>>
    /\ filter_pc = "none"
    /\ controller_devices = <<>>
    /\ devices_local = <<>>
    /\ dispatch_targets = <<>>
    /\ exit_code = 0

\* no lookup by logical id has run
LookupIdle ==
    /\ duplicates = <<>>
    /\ lookup_tool = "none"
    /\ device_id = <<>>
    /\ map_devices = <<>>
    /\ lookup_pc = "none"
    /\ selected = <<>>
    /\ lookup_errors = <<>>

InitMerge ==
    /\ ScanIdle
    /\ RemergeIdle
    /\ QuickIdle
    /\ ListIdle
    /\ AutoIdle
    /\ CycleIdle
    /\ FilterIdle
    /\ PersistIdle
    /\ ServerIdle
    /\ LookupIdle
    /\ BatchIdle
    /\ PlayIdle
    /\ IdIdle
    /\ argMode \in AllModes
    /\ argExisting \in DictsOver([m \in MACs |-> ExistingRecords(m)])
    /\ argNew \in DictsOver([m \in MACs |-> DiscoveredRecords(m)])
    /\ mergePc = "call"
    /\ retMerged = <<>>

\* merge_device_maps returns the merged map
MergeReturn ==
    /\ mergePc = "call"
    /\ argMode \in Modes
    /\ retMerged' = merge_device_maps(argMode, argExisting, argNew)
    /\ mergePc' = "returned"
    /\ UNCHANGED <<argMode, argExisting, argNew, scanVars, batchVars,
                   playVars, idVars, lookupVars, serverVars, persistVars,
                   filterVars, cycleVars, autoVars, listVars, quickVars,
                   remergeVars>>

\* merge_device_maps raises ValueError on any other mode
MergeRaise ==
    /\ mergePc = "call"
    /\ argMode \notin Modes
    /\ mergePc' = "raised"
    /\ UNCHANGED <<argMode, argExisting, argNew, retMerged, scanVars, batchVars,
                   playVars, idVars, lookupVars, serverVars, persistVars,
                   filterVars, cycleVars, autoVars, listVars, quickVars,
                   remergeVars>>

NextMerge == MergeReturn \/ MergeRaise

SpecMerge == InitMerge /\ [][NextMerge]_vars

\* ------------------------------------------------------- load_existing_map
RECURSIVE FromList(_, _, _)
\* {d['mac_address']: d for d in devices}
FromList(devices, i, acc) ==
    IF i > Len(devices) THEN acc
    ELSE FromList(devices, i + 1, SetItem(acc, devices[i].mac_address, devices[i]))

\* mutant: the file's device list is not read
load_existing_map_IgnoresFile(file) == <<>>

\* an absent file gives {}; so does any exception while reading (a record
\* without mac_address raises KeyError)
load_existing_map(file) ==
    IF file = <<>> THEN <<>>
    ELSE IF \E i \in DOMAIN file[1].devices :
                "mac_address" \notin DOMAIN file[1].devices[i]
         THEN <<>>
         ELSE FromList(file[1].devices, 1, <<>>)

\* --------------------------------------------------------- save_device_map
\* ipaddress.ip_address(d['ip_address']): the address as a number
IpKey(d) == d.ip_address

\* mutant: the list is left in the order of the map
InsertByIp_Appends(sorted, x) == Append(sorted, x)

\* list.sort is stable: x goes after the elements whose key is not greater
InsertByIp(sorted, x) ==
    LET c == Cardinality({j \in DOMAIN sorted : IpKey(sorted[j]) <= IpKey(x)})
    IN  SubSeq(sorted, 1, c) \o <<x>> \o SubSeq(sorted, c + 1, Len(sorted))

RECURSIVE SortByIp(_, _, _)
SortByIp(list, i, acc) ==
    IF i > Len(list) THEN acc
    ELSE SortByIp(list, i + 1, InsertByIp(acc, list[i]))

\* the JSON object save_device_map writes
save_device_map(devices, m, t) ==
    LET device_list == SortByIp(Values(devices), 1, <<>>)
    IN  [scan_time |-> t,
         scan_mode |-> m,
         network_range |-> "network",
         device_count |-> Len(device_list),
         devices |-> device_list]

\* the MAC keys of the persisted registry
FileKeys(file) ==
    IF file = <<>> THEN {}
    ELSE {file[1].devices[i].mac_address : i \in DOMAIN file[1].devices}

\* ------------------------------------------------------------ scanner run
\* bodies a device may answer /api/status with: its MAC and id, or no MAC
StatusResponses ==
    {StatusData(m, m) : m \in 1..NumScanMacs} \cup
    {[id |-> 1, wifi_connected |-> TRUE, firmware_version |-> 1,
      uptime_seconds |-> 1]}

\* mutant: a batch starts one address early, on the last address of the
\* batch before it
Batch_Overlaps(i, batch_size) == {ip \in IPs : i <= ip /\ ip <= i + batch_size}

\* all_ips[i:i + batch_size]
Batch(i, batch_size) == {ip \in IPs : i < ip /\ ip <= i + batch_size}

RECURSIVE NotNone(_, _, _)
\* [r for r in results if r is not None], in the order of the batch
NotNone(res, ip, last) ==
    IF ip > last THEN <<>>
    ELSE res[ip] \o NotNone(res, ip + 1, last)

RECURSIVE StoreLoop(_, _, _)
\* for device in devices: self.discovered_devices[device['mac_address']] = device
StoreLoop(discovered, devices, i) ==
    IF i > Len(devices) THEN discovered
    ELSE StoreLoop(SetItem(discovered, devices[i].mac_address, devices[i]),
                   devices, i + 1)

\* scan_device returns: the running call of the log has ended as `how`
Ended(log, how) == [log EXCEPT ![Len(log)] = how]

Init ==
    /\ MergeIdle
    /\ ScanIdle
    /\ RemergeIdle
    /\ QuickIdle
    /\ ListIdle
    /\ AutoIdle
    /\ CycleIdle
    /\ FilterIdle
    /\ PersistIdle
    /\ ServerIdle
    /\ LookupIdle
    /\ BatchIdle
    /\ PlayIdle
    /\ IdIdle

\* main constructs a DeviceScanner and run begins
Start(m, limit) ==
    /\ pc \in {"idle", "done", "failed"}
    /\ now < MaxTime
    /\ now' = now + 1
    /\ mode' = m
    /\ concurrent_limit' = limit
    /\ discovered_devices' = <<>>
    /\ scan_stats' = [total_ips |-> 0, scanned |-> 0, found |-> 0, errors |-> 0]
    /\ existing_map' = <<>>
    /\ final_map' = <<>>
    /\ batchStart' = 0
    /\ inflight' = {}
    /\ results' = <<>>
    /\ probedOk' = {}
    /\ probeLog' = [ip \in IPs |-> <<>>]
    /\ progress' = <<>>
    /\ pc' = "load"
    /\ UNCHANGED <<mapFile, persistedSince, mergeVars, batchVars,
                   playVars, idVars, lookupVars, serverVars, persistVars,
                   filterVars, cycleVars, autoVars, listVars, quickVars,
                   remergeVars>>

\* run loads the existing map in add and update mode; scan_network lists
\* the addresses
LoadExisting ==
    /\ pc = "load"
    /\ existing_map' = IF mode \in {"add", "update"}
                       THEN load_existing_map(mapFile) ELSE <<>>
    /\ scan_stats' = [scan_stats EXCEPT !.total_ips = NumIps]
    /\ pc' = "scan"
    /\ UNCHANGED <<progress, mapFile, now, mode, concurrent_limit, discovered_devices,
                   batchStart, final_map, inflight, results, probedOk,
                   persistedSince, probeLog, mergeVars,
                   batchVars,
                   playVars, idVars, lookupVars, serverVars, persistVars,
                   filterVars, cycleVars, autoVars, listVars, quickVars,
                   remergeVars>>

\* scan_batch creates one scan_device task per address of the batch
StartBatch ==
    /\ pc = "scan"
    /\ batchStart < NumIps
    /\ inflight' = Batch(batchStart, concurrent_limit)
    /\ results' = [ip \in Batch(batchStart, concurrent_limit) |-> <<>>]
    /\ probeLog' = [ip \in IPs |->
                        IF ip \in Batch(batchStart, concurrent_limit)
                        THEN Append(probeLog[ip], "inflight") ELSE probeLog[ip]]
    /\ pc' = "gather"
    /\ UNCHANGED <<progress, mapFile, now, mode, concurrent_limit, discovered_devices,
                   scan_stats, existing_map, batchStart, final_map, probedOk,
                   persistedSince, mergeVars, batchVars,
                   playVars, idVars, lookupVars, serverVars, persistVars,
                   filterVars, cycleVars, autoVars, listVars, quickVars,
                   remergeVars>>

\* scan_device: a 200 response with body data
ProbeFound(ip, data) ==
    /\ pc = "gather"
    /\ ip \in inflight
    /\ inflight' = inflight \ {ip}
    /\ results' = [results EXCEPT ![ip] = <<device_info(ip, data, now)>>]
    /\ probedOk' = probedOk \cup {device_info(ip, data, now).mac_address}
    /\ probeLog' = [probeLog EXCEPT ![ip] = Ended(@, "found")]
    /\ UNCHANGED <<progress, mapFile, now, pc, mode, concurrent_limit, discovered_devices,
                   scan_stats, existing_map, batchStart, final_map,
                   persistedSince, mergeVars, batchVars,
                   playVars, idVars, lookupVars, serverVars, persistVars,
                   filterVars, cycleVars, autoVars, listVars, quickVars,
                   remergeVars>>

\* mutant: an expected absence is counted in the error tally
ProbeNone_CountsError(ip) ==
    /\ pc = "gather"
    /\ ip \in inflight
    /\ inflight' = inflight \ {ip}
    /\ scan_stats' = [scan_stats EXCEPT !.errors = @ + 1]
    /\ probeLog' = [probeLog EXCEPT ![ip] = Ended(@, "none")]
    /\ UNCHANGED <<progress, mapFile, now, pc, mode, concurrent_limit, discovered_devices,
                   existing_map, batchStart, final_map, results, probedOk,
                   persistedSince, mergeVars, batchVars,
                   playVars, idVars, lookupVars, serverVars, persistVars,
                   filterVars, cycleVars, autoVars, listVars, quickVars,
                   remergeVars>>

\* scan_device: a non-200 response, a timeout or an aiohttp.ClientError
ProbeNone(ip) ==
    /\ pc = "gather"
    /\ ip \in inflight
    /\ inflight' = inflight \ {ip}
    /\ probeLog' = [probeLog EXCEPT ![ip] = Ended(@, "none")]
    /\ UNCHANGED <<progress, mapFile, now, pc, mode, concurrent_limit, discovered_devices,
                   scan_stats, existing_map, batchStart, final_map, results,
                   probedOk, persistedSince, mergeVars, batchVars,
                   playVars, idVars, lookupVars, serverVars, persistVars,
                   filterVars, cycleVars, autoVars, listVars, quickVars,
                   remergeVars>>

\* scan_device: any other exception
ProbeError(ip) ==
    /\ pc = "gather"
    /\ ip \in inflight
    /\ inflight' = inflight \ {ip}
    /\ scan_stats' = [scan_stats EXCEPT !.errors = @ + 1]
    /\ probeLog' = [probeLog EXCEPT ![ip] = Ended(@, "error")]
    /\ UNCHANGED <<progress, mapFile, now, pc, mode, concurrent_limit, discovered_devices,
                   existing_map, batchStart, final_map, results, probedOk,
                   persistedSince, mergeVars, batchVars,
                   playVars, idVars, lookupVars, serverVars, persistVars,
                   filterVars, cycleVars, autoVars, listVars, quickVars,
                   remergeVars>>

\* mutant: the batch is counted as one address
CountBatch_CountsOne(stats, n) == [stats EXCEPT !.scanned = @ + 1]

\* scan_batch: self.scan_stats['scanned'] += len(ips)
CountBatch(stats, n) == [stats EXCEPT !.scanned = @ + n]

\* gather returns; scan_batch counts the batch and logs the progress;
\* scan_network stores its devices
BatchDone ==
    /\ pc = "gather"
    /\ inflight = {}
    /\ LET last == IF batchStart + concurrent_limit < NumIps
                   THEN batchStart + concurrent_limit ELSE NumIps
           devices == NotNone(results, batchStart + 1, last)
           counted == CountBatch(scan_stats, last - batchStart)
       IN  /\ discovered_devices' = StoreLoop(discovered_devices, devices, 1)
           /\ scan_stats' = [counted EXCEPT !.found = @ + Len(devices)]
           /\ progress' = Append(progress,
                                 [scanned |-> counted.scanned,
                                  total |-> counted.total_ips])
    /\ batchStart' = batchStart + concurrent_limit
    /\ results' = <<>>
    /\ pc' = "scan"
    /\ UNCHANGED <<mapFile, now, mode, concurrent_limit, existing_map, final_map,
                   inflight, probedOk, persistedSince, probeLog, mergeVars,
                   batchVars,
                   playVars, idVars, lookupVars, serverVars, persistVars,
                   filterVars, cycleVars, autoVars, listVars, quickVars,
                   remergeVars>>

\* mutant: run merges while the batch is still being gathered
MergeMaps_BeforeDrain ==
    /\ pc = "gather"
    /\ mode \in Modes
    /\ final_map' = merge_device_maps(mode, existing_map, discovered_devices)
    /\ pc' = "save"
    /\ UNCHANGED <<progress, mapFile, now, mode, concurrent_limit, discovered_devices,
                   scan_stats, existing_map, batchStart, inflight, results,
                   probedOk, persistedSince, probeLog, mergeVars,
                   batchVars,
                   playVars, idVars, lookupVars, serverVars, persistVars,
                   filterVars, cycleVars, autoVars, listVars, quickVars,
                   remergeVars>>

\* scan_network returns and run merges
MergeMaps ==
    /\ pc = "scan"
    /\ batchStart >= NumIps
    /\ mode \in Modes
    /\ final_map' = merge_device_maps(mode, existing_map, discovered_devices)
    /\ pc' = "save"
    /\ UNCHANGED <<progress, mapFile, now, mode, concurrent_limit, discovered_devices,
                   scan_stats, existing_map, batchStart, inflight, results,
                   probedOk, persistedSince, probeLog, mergeVars,
                   batchVars,
                   playVars, idVars, lookupVars, serverVars, persistVars,
                   filterVars, cycleVars, autoVars, listVars, quickVars,
                   remergeVars>>

\* scan_network returns and merge_device_maps raises ValueError
MergeFails ==
    /\ pc = "scan"
    /\ batchStart >= NumIps
    /\ mode \notin Modes
    /\ pc' = "failed"
    /\ UNCHANGED <<progress, mapFile, now, mode, concurrent_limit, discovered_devices,
                   scan_stats, existing_map, batchStart, final_map, inflight,
                   results, probedOk, persistedSince, probeLog, mergeVars,
                   batchVars,
                   playVars, idVars, lookupVars, serverVars, persistVars,
                   filterVars, cycleVars, autoVars, listVars, quickVars,
                   remergeVars>>

\* run saves the merged map
SaveMap ==
    /\ pc = "save"
    /\ mapFile' = <<save_device_map(final_map, mode, now)>>
    /\ persistedSince' = IF mode = "add"
                         THEN persistedSince \cup FileKeys(mapFile')
                         ELSE FileKeys(mapFile')
    /\ pc' = "done"
    /\ UNCHANGED <<progress, now, mode, concurrent_limit, discovered_devices, scan_stats,
                   existing_map, batchStart, final_map, inflight, results,
                   probedOk, probeLog, mergeVars,
                   batchVars,
                   playVars, idVars, lookupVars, serverVars, persistVars,
                   filterVars, cycleVars, autoVars, listVars, quickVars,
                   remergeVars>>

Next ==
    \/ \E m \in AllModes, limit \in 1..NumIps : Start(m, limit)
    \/ LoadExisting
    \/ StartBatch
    \/ \E ip \in IPs, data \in StatusResponses : ProbeFound(ip, data)
    \/ \E ip \in IPs : ProbeNone(ip)
    \/ \E ip \in IPs : ProbeError(ip)
    \/ BatchDone
    \/ MergeMaps
    \/ MergeFails
    \/ SaveMap

Spec == Init /\ [][Next]_vars

\* the steps of a run that has started: the event loop runs every task that
\* is ready, and every request ends by its ClientTimeout at the latest
RunStep ==
    \/ LoadExisting
    \/ StartBatch
    \/ \E ip \in IPs, data \in StatusResponses : ProbeFound(ip, data)
    \/ \E ip \in IPs : ProbeNone(ip)
    \/ \E ip \in IPs : ProbeError(ip)
    \/ BatchDone
    \/ MergeMaps
    \/ MergeFails
    \/ SaveMap

SpecFair == Spec /\ WF_vars(RunStep)

\* mutant: an interrupted run saves the devices it discovered so far
Interrupt_SavesDiscovered ==
    /\ pc \in {"load", "scan", "gather", "save"}
    /\ mapFile' = <<save_device_map(discovered_devices, mode, now)>>
    /\ pc' = "failed"
    /\ discovered_devices' = <<>>
    /\ scan_stats' = [total_ips |-> 0, scanned |-> 0, found |-> 0, errors |-> 0]
    /\ existing_map' = <<>>
    /\ final_map' = <<>>
    /\ batchStart' = 0
    /\ inflight' = {}
    /\ results' = <<>>
    /\ probeLog' = [ip \in IPs |-> <<>>]
    /\ progress' = <<>>
    /\ UNCHANGED <<now, mode, concurrent_limit, probedOk, persistedSince,
                   mergeVars, batchVars, playVars, idVars, lookupVars,
                   serverVars, persistVars, filterVars, cycleVars, autoVars,
                   listVars, quickVars, remergeVars>>

\* the operator interrupts the scanner (KeyboardInterrupt), or an exception
\* leaves run: main logs it and the process exits with status 1; the
\* requests in flight are cancelled and what the process held in memory
\* is gone
Interrupt ==
    /\ pc \in {"load", "scan", "gather", "save"}
    /\ pc' = "failed"
    /\ discovered_devices' = <<>>
    /\ scan_stats' = [total_ips |-> 0, scanned |-> 0, found |-> 0, errors |-> 0]
    /\ existing_map' = <<>>
    /\ final_map' = <<>>
    /\ batchStart' = 0
    /\ inflight' = {}
    /\ results' = <<>>
    /\ probeLog' = [ip \in IPs |-> <<>>]
    /\ progress' = <<>>
    /\ UNCHANGED <<mapFile, now, mode, concurrent_limit, probedOk,
                   persistedSince, mergeVars, batchVars, playVars, idVars,
                   lookupVars, serverVars, persistVars, filterVars, cycleVars,
                   autoVars, listVars, quickVars, remergeVars>>

NextInterrupt ==
    \/ Next
    \/ Interrupt

\* scan cycles that may be interrupted
SpecInterrupt == Init /\ [][NextInterrupt]_vars

\* --------------------------------------------------------- batch dispatch
\* how a device answers a request: 200 with a JSON body, another status with
\* a JSON body, a body that is not JSON, a refused connection, or no answer
Kinds == {"ok", "http_error", "malformed", "refused", "hang"}

\* the devices of the batch, as a scan stored them
TargetDevice(i) == device_info(i, StatusData(i, i), 0)

\* BatchController.send_request: the result dict for a device whose request
\* ended as `outcome` (a Kind, or "timeout" when the request timer fired)
send_request(device, outcome) ==
    LET result == [device_id |-> Get(device, "id", UNKNOWN),
                   ip_address |-> device.ip_address,
                   mac_address |-> Get(device, "mac_address", UNKNOWN),
                   success |-> FALSE,
                   response |-> "None",
                   error |-> "None"]
    IN  CASE outcome = "ok" ->
                [result EXCEPT !.response = "json", !.success = TRUE]
          [] outcome = "http_error" -> [result EXCEPT !.response = "json"]
          [] outcome = "timeout" -> [result EXCEPT !.error = "Timeout"]
          [] OTHER -> [result EXCEPT !.error = "str(e)"]

\* FileManager.list_files, the operation process_devices_batch is run with
list_files(device, outcome) ==
    LET result == [device_id |-> Get(device, "id", UNKNOWN),
                   ip_address |-> device.ip_address,
                   success |-> FALSE,
                   files |-> "[]",
                   error |-> "None"]
    IN  CASE outcome = "ok" -> [result EXCEPT !.files = "files", !.success = TRUE]
          [] outcome = "http_error" -> [result EXCEPT !.error = "HTTP status"]
          [] outcome = "timeout" -> [result EXCEPT !.error = "Timeout"]
          [] OTHER -> [result EXCEPT !.error = "str(e)"]

\* the result the running dispatcher's operation builds
OperationResult(i, outcome) ==
    IF dispatcher = "batch_request"
    THEN send_request(targets[i], outcome)
    ELSE list_files(targets[i], outcome)

\* connections the TCPConnector(limit=concurrent_limit) has handed out
Connected == {i \in DOMAIN tasks : tasks[i].st = "connected"}

\* the task may take a connection: a slot is free and no earlier request waits
CanConnect(i) ==
    /\ tasks[i].st = "queued"
    /\ Cardinality(Connected) < batch_limit
    /\ \A j \in DOMAIN tasks : j < i => tasks[j].st # "queued"

\* the device's answer to a connected request has arrived
Answered(i) ==
    /\ tasks[i].st = "connected"
    /\ \/ behaviour[i] = "refused"
       \/ behaviour[i] \in {"ok", "http_error", "malformed"} /\ tasks[i].since < clock

Finish(i, outcome) ==
    [tasks EXCEPT ![i] = [st |-> "done", since |-> tasks[i].since,
                          result |-> <<OperationResult(i, outcome)>>]]

\* the devices[i:i + batch_size] slice of process_devices_batch
Window(i, batch_size) ==
    {j \in 1..NumTargets : i < j /\ j <= i + batch_size}

RECURSIVE Collect(_, _)
\* the results of tasks first..last, in the order of the device list
Collect(first, last) ==
    IF first > last THEN <<>>
    ELSE tasks[first].result \o Collect(first + 1, last)

InitBatch ==
    /\ MergeIdle
    /\ ScanIdle
    /\ RemergeIdle
    /\ QuickIdle
    /\ ListIdle
    /\ AutoIdle
    /\ CycleIdle
    /\ FilterIdle
    /\ PersistIdle
    /\ ServerIdle
    /\ LookupIdle
    /\ PlayIdle
    /\ IdIdle
    /\ dispatcher \in {"batch_request", "process_devices_batch"}
    /\ targets = [i \in 1..NumTargets |-> TargetDevice(i)]
    /\ behaviour \in [1..NumTargets -> Kinds]
    /\ batch_limit \in 1..NumTargets
    /\ bpc = "start"
    /\ windowStart = 0
    /\ clock = 0
    /\ tasks = [i \in 1..NumTargets |-> [st |-> "unstarted", since |-> 0, result |-> <<>>]]
    /\ batch_results = <<>>

\* batch_request creates a send_request task for every device and gathers
\* them: every request's timer starts now
CreateAllTasks ==
    /\ dispatcher = "batch_request"
    /\ bpc = "start"
    /\ tasks' = [i \in DOMAIN tasks |-> [tasks[i] EXCEPT !.st = "queued"]]
    /\ clock' = 0
    /\ bpc' = "gather"
    /\ UNCHANGED <<dispatcher, targets, behaviour, batch_limit, windowStart,
                   batch_results, mergeVars, scanVars,
                   playVars, idVars, lookupVars, serverVars, persistVars,
                   filterVars, cycleVars, autoVars, listVars, quickVars,
                   remergeVars>>

\* process_devices_batch creates the tasks of the next slice and gathers them
CreateWindowTasks ==
    /\ dispatcher = "process_devices_batch"
    /\ bpc = "start"
    /\ windowStart < NumTargets
    /\ tasks' = [i \in DOMAIN tasks |->
                    IF i \in Window(windowStart, batch_limit)
                    THEN [tasks[i] EXCEPT !.st = "queued"] ELSE tasks[i]]
    /\ clock' = 0
    /\ bpc' = "gather"
    /\ UNCHANGED <<dispatcher, targets, behaviour, batch_limit, windowStart,
                   batch_results, mergeVars, scanVars,
                   playVars, idVars, lookupVars, serverVars, persistVars,
                   filterVars, cycleVars, autoVars, listVars, quickVars,
                   remergeVars>>

\* session.request obtains a connection from the connector
Connect(i) ==
    /\ bpc = "gather"
    /\ CanConnect(i)
    /\ clock < Timeout
    /\ tasks' = [tasks EXCEPT ![i] = [@ EXCEPT !.st = "connected", !.since = clock]]
    /\ UNCHANGED <<dispatcher, targets, behaviour, batch_limit, bpc, windowStart,
                   clock, batch_results, mergeVars, scanVars,
                   playVars, idVars, lookupVars, serverVars, persistVars,
                   filterVars, cycleVars, autoVars, listVars, quickVars,
                   remergeVars>>

\* the device's answer (or the refusal of the connection) ends the request
Respond(i) ==
    /\ bpc = "gather"
    /\ Answered(i)
    /\ tasks' = Finish(i, behaviour[i])
    /\ UNCHANGED <<dispatcher, targets, behaviour, batch_limit, bpc, windowStart,
                   clock, batch_results, mergeVars, scanVars,
                   playVars, idVars, lookupVars, serverVars, persistVars,
                   filterVars, cycleVars, autoVars, listVars, quickVars,
                   remergeVars>>

\* ClientTimeout(total=self.timeout) fires: the timer runs from the start of
\* the request, the wait for a connection included
TimeoutFire(i) ==
    /\ bpc = "gather"
    /\ tasks[i].st \in {"queued", "connected"}
    /\ ~Answered(i)
    /\ clock >= Timeout
    /\ tasks' = Finish(i, "timeout")
    /\ UNCHANGED <<dispatcher, targets, behaviour, batch_limit, bpc, windowStart,
                   clock, batch_results, mergeVars, scanVars,
                   playVars, idVars, lookupVars, serverVars, persistVars,
                   filterVars, cycleVars, autoVars, listVars, quickVars,
                   remergeVars>>

\* time passes while every unfinished request waits for its device or for a
\* connection
Tick ==
    /\ bpc = "gather"
    /\ clock < Timeout
    /\ \E i \in DOMAIN tasks : tasks[i].st \in {"queued", "connected"}
    /\ \A i \in DOMAIN tasks : ~CanConnect(i) /\ ~Answered(i)
    /\ clock' = clock + 1
    /\ UNCHANGED <<dispatcher, targets, behaviour, batch_limit, bpc, windowStart,
                   tasks, batch_results, mergeVars, scanVars,
                   playVars, idVars, lookupVars, serverVars, persistVars,
                   filterVars, cycleVars, autoVars, listVars, quickVars,
                   remergeVars>>

\* gather returns the results of batch_request in the order of the devices
GatherAll ==
    /\ dispatcher = "batch_request"
    /\ bpc = "gather"
    /\ \A i \in DOMAIN tasks : tasks[i].st = "done"
    /\ batch_results' = Collect(1, NumTargets)
    /\ bpc' = "returned"
    /\ UNCHANGED <<dispatcher, targets, behaviour, batch_limit, windowStart,
                   clock, tasks, mergeVars, scanVars,
                   playVars, idVars, lookupVars, serverVars, persistVars,
                   filterVars, cycleVars, autoVars, listVars, quickVars,
                   remergeVars>>

\* gather returns the results of the slice; process_devices_batch extends its
\* list and goes on to the next slice
GatherWindow ==
    /\ dispatcher = "process_devices_batch"
    /\ bpc = "gather"
    /\ \A i \in Window(windowStart, batch_limit) : tasks[i].st = "done"
    /\ LET last == IF windowStart + batch_limit < NumTargets
                   THEN windowStart + batch_limit ELSE NumTargets
       IN  batch_results' = batch_results \o Collect(windowStart + 1, last)
    /\ windowStart' = windowStart + batch_limit
    /\ bpc' = "start"
    /\ UNCHANGED <<dispatcher, targets, behaviour, batch_limit, clock, tasks,
                   mergeVars, scanVars,
                   playVars, idVars, lookupVars, serverVars, persistVars,
                   filterVars, cycleVars, autoVars, listVars, quickVars,
                   remergeVars>>

\* the loop of process_devices_batch ends and the list is returned
ReturnResults ==
    /\ dispatcher = "process_devices_batch"
    /\ bpc = "start"
    /\ windowStart >= NumTargets
    /\ bpc' = "returned"
    /\ UNCHANGED <<dispatcher, targets, behaviour, batch_limit, windowStart,
                   clock, tasks, batch_results, mergeVars, scanVars,
                   playVars, idVars, lookupVars, serverVars, persistVars,
                   filterVars, cycleVars, autoVars, listVars, quickVars,
                   remergeVars>>

NextBatch ==
    \/ CreateAllTasks
    \/ CreateWindowTasks
    \/ \E i \in 1..NumTargets : Connect(i)
    \/ \E i \in 1..NumTargets : Respond(i)
    \/ \E i \in 1..NumTargets : TimeoutFire(i)
    \/ Tick
    \/ GatherAll
    \/ GatherWindow
    \/ ReturnResults

SpecBatch == InitBatch /\ [][NextBatch]_vars

\* ------------------------------------------------ batch_control_playback
\* values of the request's 'action': the four the handler knows and one
\* that stands for every other value
Actions == {"play", "start", "stop", "pause", "resume"}

\* the ids a request may name: those of the registry and one it does not hold
DeviceIds == 1..(NumPlayDevices + 1)

\* how a sub-operation's request ends: its HTTP status, or a
\* requests.RequestException (timeout, refused connection)
Responses == {"200", "500", "RequestException"}

\* the endpoint the handler posts to for the action
Endpoint(a) ==
    IF a \in {"play", "start"} THEN "/api/loop/start" ELSE "/api/loop/stop"

\* a request arrives
InitPlay ==
    /\ MergeIdle
    /\ ScanIdle
    /\ RemergeIdle
    /\ QuickIdle
    /\ ListIdle
    /\ AutoIdle
    /\ CycleIdle
    /\ FilterIdle
    /\ PersistIdle
    /\ ServerIdle
    /\ LookupIdle
    /\ BatchIdle
    /\ IdIdle
    /\ action \in Actions
    /\ device_ids \in UNION {[1..n -> DeviceIds] : n \in 1..MaxDeviceIds}
    /\ registry_ids = 1..NumPlayDevices
    /\ ppc = "device"
    /\ dev_idx = 1
    /\ track = 0
    /\ device_success = TRUE
    /\ api_results = <<>>
    /\ subops = <<>>

\* for device_id in device_ids: the registry holds the device
DeviceFound ==
    /\ ppc = "device"
    /\ dev_idx <= Len(device_ids)
    /\ device_ids[dev_idx] \in registry_ids
    /\ device_success' = TRUE
    /\ track' = 0
    /\ subops' = Append(subops, <<>>)
    /\ ppc' = "track"
    /\ UNCHANGED <<action, device_ids, registry_ids, dev_idx, api_results,
                   mergeVars, scanVars, batchVars, idVars, lookupVars,
                   serverVars, persistVars, filterVars, cycleVars, autoVars,
                   listVars, quickVars, remergeVars>>

\* for device_id in device_ids: registry.get_device returns None
DeviceNotFound ==
    /\ ppc = "device"
    /\ dev_idx <= Len(device_ids)
    /\ device_ids[dev_idx] \notin registry_ids
    /\ api_results' = Append(api_results,
            [device_id |-> device_ids[dev_idx], status |-> "not_found"])
    /\ subops' = Append(subops, <<>>)
    /\ dev_idx' = dev_idx + 1
    /\ UNCHANGED <<action, device_ids, registry_ids, ppc, track, device_success,
                   mergeVars, scanVars, batchVars, idVars, lookupVars,
                   serverVars, persistVars, filterVars, cycleVars, autoVars,
                   listVars, quickVars, remergeVars>>

\* for track in range(3): the request to start or stop the track is posted
\* and ends as resp
TrackRequest(resp) ==
    /\ ppc = "track"
    /\ track < NumTracks
    /\ action \in {"play", "start", "stop", "pause"}
    /\ subops' = [subops EXCEPT ![dev_idx] =
            Append(@, [endpoint |-> Endpoint(action), track |-> track,
                       response |-> resp])]
    /\ device_success' = IF resp = "200" THEN device_success ELSE FALSE
    /\ track' = track + 1
    /\ UNCHANGED <<action, device_ids, registry_ids, ppc, dev_idx, api_results,
                   mergeVars, scanVars, batchVars, idVars, lookupVars,
                   serverVars, persistVars, filterVars, cycleVars, autoVars,
                   listVars, quickVars, remergeVars>>

\* for track in range(3): any other action, continue
TrackSkip ==
    /\ ppc = "track"
    /\ track < NumTracks
    /\ action \notin {"play", "start", "stop", "pause"}
    /\ track' = track + 1
    /\ UNCHANGED <<action, device_ids, registry_ids, ppc, dev_idx,
                   device_success, api_results, subops,
                   mergeVars, scanVars, batchVars, idVars, lookupVars,
                   serverVars, persistVars, filterVars, cycleVars, autoVars,
                   listVars, quickVars, remergeVars>>

\* after the tracks the device's result is appended
DeviceResult ==
    /\ ppc = "track"
    /\ track = NumTracks
    /\ api_results' = Append(api_results,
            [device_id |-> device_ids[dev_idx],
             status |-> IF device_success THEN "success" ELSE "partial"])
    /\ dev_idx' = dev_idx + 1
    /\ ppc' = "device"
    /\ UNCHANGED <<action, device_ids, registry_ids, track, device_success,
                   subops, mergeVars, scanVars, batchVars, idVars,
                   lookupVars, serverVars, persistVars, filterVars,
                   cycleVars, autoVars, listVars, quickVars, remergeVars>>

\* return jsonify({'results': results})
PlayRespond ==
    /\ ppc = "device"
    /\ dev_idx > Len(device_ids)
    /\ ppc' = "responded"
    /\ UNCHANGED <<action, device_ids, registry_ids, dev_idx, track,
                   device_success, api_results, subops,
                   mergeVars, scanVars, batchVars, idVars, lookupVars,
                   serverVars, persistVars, filterVars, cycleVars, autoVars,
                   listVars, quickVars, remergeVars>>

NextPlay ==
    \/ DeviceFound
    \/ DeviceNotFound
    \/ \E resp \in Responses : TrackRequest(resp)
    \/ TrackSkip
    \/ DeviceResult
    \/ PlayRespond

SpecPlay == InitPlay /\ [][NextPlay]_vars

\* ------------------------------------------------------------- id_manager
\* a MAC address string: the address n written with upper-case hex digits
\* (the form devices report) or with lower-case ones
MacStr(n, lower) == [addr |-> n, lower |-> lower]

\* mutant: the MAC is looked up as typed
Upper_AsTyped(m) == m

\* str.upper on a MAC address string
Upper(m) == [m EXCEPT !.lower = FALSE]

\* a <= b on MAC address strings: by address, and for one address the
\* upper-case spelling first
MacLeq(a, b) == a.addr < b.addr \/ (a.addr = b.addr /\ (b.lower \/ ~a.lower))

\* an id string that is a plain name, as an operator types it
NameId(n) == [prefix |-> 0, num |-> <<n>>]

\* the logical ids devices carry and operators ask for
Ids == {NameId(n) : n \in 1..NumIds}

\* how a POST /api/id ends: its HTTP status, or asyncio.TimeoutError
PostResponses == {"200", "500", "Timeout"}

\* what scan_single_device gets from an address: nothing it accepts (<<>>:
\* a non-200 status, a timeout, an error) or a 200 with a JSON body
ProbeAnswers == {<<>>} \cup {<<data>> : data \in StatusResponses}

\* the addresses first..last in order
IpList(first, last) == [k \in 1..(last - first + 1) |-> first + k - 1]

\* the request set_device_id and provision_single_device post to a device
IdPost(ip, id, resp) == [ip_address |-> ip, id |-> id, response |-> resp]

\* the state of an invocation before its method runs
IdFresh ==
    /\ id_pc = "call"
    /\ id_ret = <<>>
    /\ assignments = <<>>
    /\ confirm_response = <<>>
    /\ assign_idx = 1
    /\ success_count = 0
    /\ prov_i = 0
    /\ found_devices = <<>>
    /\ responders = {}
    /\ probes_sent = <<>>
    /\ id_posts = <<>>
    /\ warnings = <<>>

\* provision_single_device parses the network range
ProvisionStart ==
    /\ id_pc = "call"
    /\ command = "provision-single"
    /\ network_range = "valid"
    /\ prov_i' = 0
    /\ found_devices' = <<>>
    /\ id_pc' = "scan"
    /\ UNCHANGED <<command, id_ret, id_devices, mac_address, new_id, prefix,
                   start_num, network_range, prov_limit, assignments,
                   confirm_response, assign_idx, success_count, responders,
                   probes_sent, id_posts,
                   warnings, mergeVars, scanVars, batchVars, playVars,
                   lookupVars, serverVars, persistVars, filterVars,
                   cycleVars, autoVars, listVars, quickVars, remergeVars>>

\* ipaddress.ip_network raises ValueError
ProvisionInvalidRange ==
    /\ id_pc = "call"
    /\ command = "provision-single"
    /\ network_range # "valid"
    /\ id_ret' = <<FALSE>>
    /\ id_pc' = "returned"
    /\ UNCHANGED <<command, id_devices, mac_address, new_id, prefix, start_num,
                   network_range, prov_limit, assignments, confirm_response,
                   assign_idx, success_count, prov_i, found_devices, responders,
                   probes_sent, id_posts,
                   warnings, mergeVars, scanVars, batchVars, playVars,
                   lookupVars, serverVars, persistVars, filterVars,
                   cycleVars, autoVars, listVars, quickVars, remergeVars>>

\* one pass of the batch loop: the addresses of the slice are probed and
\* gathered, and the devices found are appended in the order of the slice
ProvisionBatch(ans) ==
    /\ id_pc = "scan"
    /\ command = "provision-single"
    /\ prov_i < NumIps
    /\ DOMAIN ans = Batch(prov_i, prov_limit)
    /\ LET last == IF prov_i + prov_limit < NumIps
                   THEN prov_i + prov_limit ELSE NumIps
           res == [ip \in Batch(prov_i, prov_limit) |->
                     IF ans[ip] = <<>> THEN <<>>
                     ELSE <<device_info(ip, ans[ip][1], 0)>>]
       IN  /\ found_devices' = found_devices \o NotNone(res, prov_i + 1, last)
           /\ probes_sent' = probes_sent \o IpList(prov_i + 1, last)
    /\ responders' = responders \cup {ip \in DOMAIN ans : ans[ip] # <<>>}
    /\ prov_i' = prov_i + prov_limit
    /\ UNCHANGED <<command, id_pc, id_ret, id_devices, mac_address, new_id,
                   prefix, start_num, network_range, prov_limit, assignments,
                   confirm_response, assign_idx, success_count, id_posts,
                   warnings, mergeVars, scanVars, batchVars, playVars,
                   lookupVars, serverVars, persistVars, filterVars,
                   cycleVars, autoVars, listVars, quickVars, remergeVars>>

\* len(found_devices) == 0
ProvisionNone ==
    /\ id_pc = "scan"
    /\ command = "provision-single"
    /\ prov_i >= NumIps
    /\ Len(found_devices) = 0
    /\ id_ret' = <<FALSE>>
    /\ id_pc' = "returned"
    /\ UNCHANGED <<command, id_devices, mac_address, new_id, prefix, start_num,
                   network_range, prov_limit, assignments, confirm_response,
                   assign_idx, success_count, prov_i, found_devices, responders,
                   probes_sent, id_posts,
                   warnings, mergeVars, scanVars, batchVars, playVars,
                   lookupVars, serverVars, persistVars, filterVars,
                   cycleVars, autoVars, listVars, quickVars, remergeVars>>

\* len(found_devices) == 1: the new id is posted to the device
ProvisionOne(resp) ==
    /\ id_pc = "scan"
    /\ command = "provision-single"
    /\ prov_i >= NumIps
    /\ Len(found_devices) = 1
    /\ id_posts' = Append(id_posts,
            IdPost(found_devices[1].ip_address, new_id, resp))
    /\ id_ret' = <<resp = "200">>
    /\ id_pc' = "returned"
    /\ UNCHANGED <<command, id_devices, mac_address, new_id, prefix, start_num,
                   network_range, prov_limit, assignments, confirm_response,
                   assign_idx, success_count, prov_i, found_devices, responders,
                   probes_sent,
                   warnings, mergeVars, scanVars, batchVars, playVars,
                   lookupVars, serverVars, persistVars, filterVars,
                   cycleVars, autoVars, listVars, quickVars, remergeVars>>

\* mutant: with several devices found the first one is provisioned
ProvisionMany_TakesFirst ==
    /\ id_pc = "scan"
    /\ command = "provision-single"
    /\ prov_i >= NumIps
    /\ Len(found_devices) > 1
    /\ id_posts' = Append(id_posts,
            IdPost(found_devices[1].ip_address, new_id, "200"))
    /\ id_ret' = <<TRUE>>
    /\ id_pc' = "returned"
    /\ UNCHANGED <<command, id_devices, mac_address, new_id, prefix, start_num,
                   network_range, prov_limit, assignments, confirm_response,
                   assign_idx, success_count, prov_i, found_devices, responders,
                   probes_sent,
                   warnings, mergeVars, scanVars, batchVars, playVars,
                   lookupVars, serverVars, persistVars, filterVars,
                   cycleVars, autoVars, listVars, quickVars, remergeVars>>

\* several devices found: they are listed and nothing is posted
ProvisionMany ==
    /\ id_pc = "scan"
    /\ command = "provision-single"
    /\ prov_i >= NumIps
    /\ Len(found_devices) > 1
    /\ id_ret' = <<FALSE>>
    /\ id_pc' = "returned"
    /\ UNCHANGED <<command, id_devices, mac_address, new_id, prefix, start_num,
                   network_range, prov_limit, assignments, confirm_response,
                   assign_idx, success_count, prov_i, found_devices, responders,
                   probes_sent, id_posts,
                   warnings, mergeVars, scanVars, batchVars, playVars,
                   lookupVars, serverVars, persistVars, filterVars,
                   cycleVars, autoVars, listVars, quickVars, remergeVars>>

\* ---------------------------------------------------- auto_assign_ids
\* the decimal digits of n, most significant first
RECURSIVE Digits(_)
Digits(n) == IF n < 10 THEN <<n>> ELSE Append(Digits(n \div 10), n % 10)

\* {n:03d}: the digits of n padded with zeros to three places
Pad03(n) ==
    LET ds == Digits(n)
    IN  IF Len(ds) >= 3 THEN ds ELSE [k \in 1..(3 - Len(ds)) |-> 0] \o ds

\* f"{prefix}-{current_num:03d}"
FormatId(p, n) == [prefix |-> p, num |-> Pad03(n)]

\* mutant: the devices are taken in the order of the map file
InsertByMac_Appends(sorted, x) == Append(sorted, x)

\* list.sort is stable: x goes after the elements whose MAC is not greater
InsertByMac(sorted, x) ==
    LET c == Cardinality({j \in DOMAIN sorted :
                            MacLeq(sorted[j].mac_address, x.mac_address)})
    IN  SubSeq(sorted, 1, c) \o <<x>> \o SubSeq(sorted, c + 1, Len(sorted))

\* sorted(self.devices, key=lambda d: d.get('mac_address', ''))
RECURSIVE SortByMac(_, _, _)
SortByMac(list, i, acc) ==
    IF i > Len(list) THEN acc
    ELSE SortByMac(list, i + 1, InsertByMac(acc, list[i]))

\* the loop over sorted_devices that builds the assignments
RECURSIVE PlanLoop(_, _, _, _, _)
PlanLoop(sorted_devices, i, plan, p, current_num) ==
    IF i > Len(sorted_devices) THEN plan
    ELSE LET device == sorted_devices[i]
             old_id == Get(device, "id", UNKNOWN)
             candidate == FormatId(p, current_num)
         IN  IF ~device.online
             THEN PlanLoop(sorted_devices, i + 1, plan, p, current_num)
             ELSE IF old_id = candidate
             THEN PlanLoop(sorted_devices, i + 1, plan, p, current_num)
             ELSE PlanLoop(sorted_devices, i + 1,
                           Append(plan, [mac |-> device.mac_address,
                                         old_id |-> old_id,
                                         new_id |-> candidate]),
                           p, current_num + 1)

\* the assignments auto_assign_ids plans for a device list
PlanFor(devs, p, start) ==
    PlanLoop(SortByMac(devs, 1, <<>>), 1, <<>>, p, start)

\* a device of the map file: the record a scan stored for the device with
\* MAC mac, which has address mac
MapDevice(mac, id, on) ==
    SetField(device_info(mac, StatusData(MacStr(mac, FALSE), id), 0), "online", on)

\* ids a device may carry when auto-assign is run: a plain one, or one an
\* earlier auto-assign gave
PlanIds == {NameId(1)} \cup {FormatId(1, n) : n \in 1..NumIds}

\* auto_assign_ids sorts the devices and plans the assignments; without
\* assignments it returns, else it prints the plan and asks
AutoPlan ==
    /\ id_pc = "call"
    /\ command = "auto-assign"
    /\ assignments' = PlanFor(id_devices, prefix, start_num)
    /\ id_pc' = IF assignments' = <<>> THEN "returned" ELSE "confirm"
    /\ UNCHANGED <<command, id_ret, id_devices, mac_address, new_id, prefix,
                   start_num, network_range, prov_limit, confirm_response,
                   assign_idx, success_count, prov_i, found_devices, responders,
                   probes_sent, id_posts,
                   warnings, mergeVars, scanVars, batchVars, playVars,
                   lookupVars, serverVars, persistVars, filterVars,
                   cycleVars, autoVars, listVars, quickVars, remergeVars>>

\* the orders the devices with the MACs in S can be listed in
Orders(S) ==
    {f \in [1..Cardinality(S) -> S] :
        \A a, b \in 1..Cardinality(S) : a # b => f[a] # f[b]}

\* the order save_device_map writes them in: by address
Ascending(S) ==
    CHOOSE f \in Orders(S) : \A a, b \in 1..Cardinality(S) : a < b => f[a] < f[b]

\* the device list with the MACs in the order ord, the device with MAC n
\* having the id attr[n][1] and the online flag attr[n][2]
ListOf(ord, attr) ==
    [k \in DOMAIN ord |-> MapDevice(ord[k], attr[ord[k]][1], attr[ord[k]][2])]

\* --command auto-assign on any map file
InitPlan ==
    /\ MergeIdle
    /\ ScanIdle
    /\ RemergeIdle
    /\ QuickIdle
    /\ ListIdle
    /\ AutoIdle
    /\ CycleIdle
    /\ FilterIdle
    /\ PersistIdle
    /\ ServerIdle
    /\ LookupIdle
    /\ BatchIdle
    /\ PlayIdle
    /\ IdFresh
    /\ command = "auto-assign"
    /\ \E S \in SUBSET (1..NumIdMacs) :
        \E ord \in Orders(S), attr \in [S -> PlanIds \X BOOLEAN] :
            id_devices = ListOf(ord, attr)
    /\ mac_address = <<>>
    /\ new_id = <<>>
    /\ prefix = 1
    /\ start_num \in 1..NumIds
    /\ network_range = "valid"
    /\ prov_limit = 1

SpecPlan == InitPlan /\ [][AutoPlan]_vars

\* ------------------------------------------------------- set_device_id
\* load_device_map's lookup table {mac: device}; a later device of the list
\* replaces an earlier one with the same MAC
RECURSIVE ByMac(_, _, _)
ByMac(devs, i, acc) ==
    IF i > Len(devs) THEN acc
    ELSE ByMac(devs, i + 1, SetItem(acc, devs[i].mac_address, devs[i]))

device_by_mac == ByMac(id_devices, 1, <<>>)

\* the empty string as an id, and Python's truth value of an id string
EmptyId == [prefix |-> 0, num |-> <<>>]
Truthy(id) == id # EmptyId

\* load_device_map's lookup table {id: [devices]}: each device with an id is
\* appended to the list of its id
RECURSIVE ById(_, _, _)
ById(devs, i, acc) ==
    IF i > Len(devs) THEN acc
    ELSE ById(devs, i + 1,
            IF Truthy(devs[i].id)
            THEN SetItem(acc, devs[i].id,
                    IF devs[i].id \in Keys(acc)
                    THEN Append(GetItem(acc, devs[i].id), devs[i])
                    ELSE <<devs[i]>>)
            ELSE acc)

\* device_by_id.get(id, []): the devices of the list that carry the id, in
\* order
device_by_id(id) ==
    LET table == ById(id_devices, 1, <<>>)
    IN IF id \in Keys(table) THEN GetItem(table, id) ELSE <<>>

\* find_duplicates: the entries of device_by_id with more than one device
find_duplicates_AnyGroup(table) == table
find_duplicates(table) == SelectSeq(table, LAMBDA e : Len(e.v) > 1)

\* --command find-duplicates: show_duplicates calls find_duplicates and
\* prints what it returned
ShowDuplicates ==
    /\ id_pc = "call"
    /\ command = "find-duplicates"
    /\ duplicates' = find_duplicates(ById(id_devices, 1, <<>>))
    /\ id_pc' = "returned"
    /\ UNCHANGED <<lookup_tool, device_id, map_devices, lookup_pc, selected,
                   lookup_errors>>
    /\ UNCHANGED <<command, id_ret, id_devices, mac_address, new_id, prefix,
                   start_num, network_range, prov_limit, assignments,
                   confirm_response, assign_idx, success_count, prov_i,
                   found_devices, responders, probes_sent, id_posts,
                   warnings, mergeVars, scanVars, batchVars, playVars,
                   serverVars, persistVars, filterVars, cycleVars, autoVars,
                   listVars, quickVars, remergeVars>>

\* what set_device_id logs before it posts: that the device is marked
\* offline, and that the new id is used by devices other than this one
SetIdWarnings(mac, id) ==
    LET device == GetItem(device_by_mac, Upper(mac))
        existing_macs == {device_by_id(id)[k].mac_address :
                            k \in DOMAIN device_by_id(id)}
    IN  (IF ~device.online THEN <<"offline">> ELSE <<>>) \o
        (IF existing_macs # {} /\ Upper(mac) \notin existing_macs
         THEN <<"duplicate">> ELSE <<>>)

\* set_device_id: no device of the map has the MAC
SetIdNotFound ==
    /\ id_pc = "call"
    /\ command = "set-id"
    /\ Upper(mac_address[1]) \notin Keys(device_by_mac)
    /\ id_ret' = <<FALSE>>
    /\ id_pc' = "returned"
    /\ UNCHANGED <<command, id_devices, mac_address, new_id, prefix, start_num,
                   network_range, prov_limit, assignments, confirm_response,
                   assign_idx, success_count, prov_i, found_devices, responders,
                   probes_sent, id_posts,
                   warnings, mergeVars, scanVars, batchVars, playVars,
                   lookupVars, serverVars, persistVars, filterVars,
                   cycleVars, autoVars, listVars, quickVars, remergeVars>>

\* set_device_id: the device is found, the warnings are logged and the new id
\* is posted to its address
SetIdPost(resp) ==
    /\ id_pc = "call"
    /\ command = "set-id"
    /\ Upper(mac_address[1]) \in Keys(device_by_mac)
    /\ warnings' = warnings \o SetIdWarnings(mac_address[1], new_id)
    /\ id_posts' = Append(id_posts,
            IdPost(GetItem(device_by_mac, Upper(mac_address[1])).ip_address,
                   new_id, resp))
    /\ id_ret' = <<resp = "200">>
    /\ id_pc' = "returned"
    /\ UNCHANGED <<command, id_devices, mac_address, new_id, prefix, start_num,
                   network_range, prov_limit, assignments, confirm_response,
                   assign_idx, success_count, prov_i, found_devices, responders,
                   probes_sent,
                   mergeVars, scanVars, batchVars, playVars, lookupVars,
                   serverVars, persistVars, filterVars, cycleVars, autoVars,
                   listVars, quickVars, remergeVars>>

\* ------------------------------------- auto_assign_ids, after the plan
\* what the operator may type at the prompt
Answers == {"y", "Y", "n", "yes"}

\* str.lower on an answer
Lower(text) == IF text = "Y" THEN "y" ELSE text

\* mutant: the assignments are executed whatever the operator answers
AutoConfirm_IgnoresAnswer(text) ==
    /\ id_pc = "confirm"
    /\ command = "auto-assign"
    /\ confirm_response' = <<text>>
    /\ id_pc' = "assign"
    /\ UNCHANGED <<command, id_ret, id_devices, mac_address, new_id, prefix,
                   start_num, network_range, prov_limit, assignments,
                   assign_idx, success_count, prov_i, found_devices, responders,
                   probes_sent, id_posts,
                   warnings, mergeVars, scanVars, batchVars, playVars,
                   lookupVars, serverVars, persistVars, filterVars,
                   cycleVars, autoVars, listVars, quickVars, remergeVars>>

\* input("Proceed with auto-assignment? (y/n): ")
AutoConfirm(text) ==
    /\ id_pc = "confirm"
    /\ command = "auto-assign"
    /\ confirm_response' = <<text>>
    /\ id_pc' = IF Lower(text) # "y" THEN "returned" ELSE "assign"
    /\ UNCHANGED <<command, id_ret, id_devices, mac_address, new_id, prefix,
                   start_num, network_range, prov_limit, assignments,
                   assign_idx, success_count, prov_i, found_devices, responders,
                   probes_sent, id_posts,
                   warnings, mergeVars, scanVars, batchVars, playVars,
                   lookupVars, serverVars, persistVars, filterVars,
                   cycleVars, autoVars, listVars, quickVars, remergeVars>>

\* one pass of the loop over the assignments: set_device_id(mac, new_id) is
\* awaited and the tally updated
AutoAssign(resp) ==
    /\ id_pc = "assign"
    /\ command = "auto-assign"
    /\ assign_idx <= Len(assignments)
    /\ LET mac == assignments[assign_idx].mac
           id == assignments[assign_idx].new_id
       IN  IF Upper(mac) \in Keys(device_by_mac)
           THEN /\ warnings' = warnings \o SetIdWarnings(mac, id)
                /\ id_posts' = Append(id_posts,
                        IdPost(GetItem(device_by_mac, Upper(mac)).ip_address,
                               id, resp))
                /\ success_count' =
                        IF resp = "200" THEN success_count + 1 ELSE success_count
           ELSE UNCHANGED <<warnings, id_posts, success_count>>
    /\ assign_idx' = assign_idx + 1
    /\ UNCHANGED <<command, id_pc, id_ret, id_devices, mac_address, new_id,
                   prefix, start_num, network_range, prov_limit, assignments,
                   confirm_response, prov_i, found_devices, responders,
                   probes_sent,
                   mergeVars, scanVars, batchVars, playVars, lookupVars,
                   serverVars, persistVars, filterVars, cycleVars, autoVars,
                   listVars, quickVars, remergeVars>>

\* the loop is over and the tally is logged
AutoDone ==
    /\ id_pc = "assign"
    /\ command = "auto-assign"
    /\ assign_idx > Len(assignments)
    /\ id_pc' = "returned"
    /\ UNCHANGED <<command, id_ret, id_devices, mac_address, new_id, prefix,
                   start_num, network_range, prov_limit, assignments,
                   confirm_response, assign_idx, success_count, prov_i,
                   found_devices, responders, probes_sent, id_posts,
                   warnings, mergeVars, scanVars, batchVars, playVars,
                   lookupVars, serverVars, persistVars, filterVars,
                   cycleVars, autoVars, listVars, quickVars, remergeVars>>

\* --command set-id --mac MAC --new-id ID, on a map file as save_device_map
\* writes it, with the MAC typed in upper or lower case, of a device of the
\* map or of none
InitSetId ==
    /\ command = "set-id"
    /\ \E S \in SUBSET (1..NumIdMacs) :
        \E attr \in [S -> Ids \X BOOLEAN] :
            id_devices = ListOf(Ascending(S), attr)
    /\ mac_address \in {<<MacStr(n, lower)>> :
                            n \in 1..(NumIdMacs + 1), lower \in BOOLEAN}
    /\ new_id \in Ids
    /\ prefix = 0
    /\ start_num = 1
    /\ network_range = "valid"
    /\ prov_limit = 1

\* --command auto-assign --prefix P --start-num N
InitAuto ==
    /\ command = "auto-assign"
    /\ \E S \in SUBSET (1..NumIdMacs) :
        \E attr \in [S -> PlanIds \X BOOLEAN] :
            id_devices = ListOf(Ascending(S), attr)
    /\ mac_address = <<>>
    /\ new_id = <<>>
    /\ prefix = 1
    /\ start_num \in 1..NumIds
    /\ network_range = "valid"
    /\ prov_limit = 1

\* --command find-duplicates, on any map file
InitDuplicates ==
    /\ command = "find-duplicates"
    /\ \E S \in SUBSET (1..NumIdMacs) :
        \E attr \in [S -> Ids \X BOOLEAN] :
            id_devices = ListOf(Ascending(S), attr)
    /\ mac_address = <<>>
    /\ new_id = <<>>
    /\ prefix = 0
    /\ start_num = 1
    /\ network_range = "valid"
    /\ prov_limit = 1

\* --command provision-single --network N --new-id ID; main does not load
\* the device map for it
InitProvision ==
    /\ command = "provision-single"
    /\ id_devices = <<>>
    /\ mac_address = <<>>
    /\ new_id \in Ids
    /\ prefix = 0
    /\ start_num = 1
    /\ network_range \in {"valid", "invalid"}
    /\ prov_limit \in 1..NumIps

\* ------------------------------------------- operations addressed by id
\* DeviceRegistry.load_registry: every device of the file is stored in the
\* dict under its id, on top of what the dict holds
RECURSIVE load_registry(_, _, _)
load_registry(devices, file_devices, i) ==
    IF i > Len(file_devices) THEN devices
    ELSE load_registry(SetItem(devices, file_devices[i].id, file_devices[i]),
                       file_devices, i + 1)

\* DeviceRegistry.get_device: devices.get(device_id)
get_device(devices, id) ==
    IF id \in Keys(devices) THEN <<GetItem(devices, id)>> ELSE <<>>

\* id_manager.py --command identify --id ID: identify_device looks the id up
\* in device_by_id and goes on with the device only if it is the only one
IdentifyDevice ==
    /\ lookup_pc = "call"
    /\ lookup_tool = "id_manager"
    /\ LET table == ById(map_devices, 1, <<>>)
           devices == IF device_id[1] \in Keys(table)
                      THEN GetItem(table, device_id[1]) ELSE <<>>
       IN  /\ selected' = IF Len(devices) = 1 THEN <<devices[1]>> ELSE <<>>
           /\ lookup_errors' =
                IF devices = <<>> THEN <<"not found">>
                ELSE IF Len(devices) > 1 THEN <<"multiple devices">>
                ELSE <<>>
    /\ lookup_pc' = "returned"
    /\ UNCHANGED <<duplicates, lookup_tool, device_id, map_devices>>
    /\ UNCHANGED <<mergeVars, scanVars, batchVars, playVars, idVars, serverVars, persistVars,
                   filterVars, cycleVars, autoVars, listVars, quickVars,
                   remergeVars>>

\* device_controller.py --id ID: load_device returns the first device of
\* the map whose id is the one asked for
LoadDevice ==
    /\ lookup_pc = "call"
    /\ lookup_tool = "device_controller"
    /\ LET found == {i \in DOMAIN map_devices : map_devices[i].id = device_id[1]}
       IN  /\ selected' = IF found = {} THEN <<>>
                        ELSE <<map_devices[CHOOSE i \in found :
                                            \A j \in found : i <= j]>>
           /\ lookup_errors' = IF found = {} THEN <<"not found">> ELSE <<>>
    /\ lookup_pc' = "returned"
    /\ UNCHANGED <<duplicates, lookup_tool, device_id, map_devices>>
    /\ UNCHANGED <<mergeVars, scanVars, batchVars, playVars, idVars, serverVars, persistVars,
                   filterVars, cycleVars, autoVars, listVars, quickVars,
                   remergeVars>>

\* the server's handlers for /api/device/<device_id>/...: the registry was
\* loaded from the map file, and get_device returns its entry for the id
RegistryGetDevice ==
    /\ lookup_pc = "call"
    /\ lookup_tool = "scape_server"
    /\ selected' = get_device(load_registry(<<>>, map_devices, 1), device_id[1])
    /\ lookup_errors' = IF selected' = <<>> THEN <<"not found">> ELSE <<>>
    /\ lookup_pc' = "returned"
    /\ UNCHANGED <<duplicates, lookup_tool, device_id, map_devices>>
    /\ UNCHANGED <<mergeVars, scanVars, batchVars, playVars, idVars, serverVars, persistVars,
                   filterVars, cycleVars, autoVars, listVars, quickVars,
                   remergeVars>>

\* one of the tools is asked for a device by id, on any map file
InitLookup ==
    /\ MergeIdle
    /\ ScanIdle
    /\ RemergeIdle
    /\ QuickIdle
    /\ ListIdle
    /\ AutoIdle
    /\ CycleIdle
    /\ FilterIdle
    /\ PersistIdle
    /\ ServerIdle
    /\ BatchIdle
    /\ PlayIdle
    /\ IdIdle
    /\ duplicates = <<>>
    /\ lookup_tool \in {"id_manager", "device_controller", "scape_server"}
    /\ device_id \in {<<id>> : id \in Ids}
    /\ \E S \in SUBSET (1..NumIdMacs) :
        \E attr \in [S -> Ids \X BOOLEAN] :
            map_devices = ListOf(Ascending(S), attr)
    /\ lookup_pc = "call"
    /\ selected = <<>>
    /\ lookup_errors = <<>>

NextLookup == IdentifyDevice \/ LoadDevice \/ RegistryGetDevice

SpecLookup == InitLookup /\ [][NextLookup]_vars

InitId ==
    /\ MergeIdle
    /\ ScanIdle
    /\ RemergeIdle
    /\ QuickIdle
    /\ ListIdle
    /\ AutoIdle
    /\ CycleIdle
    /\ FilterIdle
    /\ PersistIdle
    /\ ServerIdle
    /\ LookupIdle
    /\ BatchIdle
    /\ PlayIdle
    /\ IdFresh
    /\ (InitSetId \/ InitAuto \/ InitProvision \/ InitDuplicates)

NextId ==
    \/ SetIdNotFound
    \/ \E resp \in PostResponses : SetIdPost(resp)
    \/ AutoPlan
    \/ \E text \in Answers : AutoConfirm(text)
    \/ \E resp \in PostResponses : AutoAssign(resp)
    \/ AutoDone
    \/ ProvisionStart
    \/ ProvisionInvalidRange
    \/ \E ans \in UNION {[b -> ProbeAnswers] : b \in SUBSET IPs} : ProvisionBatch(ans)
    \/ ProvisionNone
    \/ \E resp \in PostResponses : ProvisionOne(resp)
    \/ ProvisionMany
    \/ ShowDuplicates

SpecId == InitId /\ [][NextId]_vars

\* ------------------------------------------------- the server's registry
\* devices in the server's registry file
NumServerDevices == 2

\* volumes a request may set
Volumes == {50, 100}

\* the device list of the registry file
DevicesOf(file) == IF file = <<>> THEN <<>> ELSE file[1].devices

\* network_wrapper.DeviceRegistry.update_device: self.devices[id] = info
update_device(devices, device_info_) ==
    SetItem(devices, device_info_.id, device_info_)

\* the object clear_all_devices writes to the device map file
empty_map(t) ==
    [scan_time |-> t,
     scan_mode |-> "create",
     network_range |-> "cleared",
     device_count |-> 0,
     devices |-> <<>>]

\* registry.load_registry(), as after a scan: the file is read into the dict
ReloadRegistry ==
    /\ registry_class = "network_wrapper"
    /\ registry_devices' =
            load_registry(registry_devices, DevicesOf(registry_file), 1)
    /\ server_op' = "load"
    /\ http_status' = 0
    /\ UNCHANGED <<registry_class, registry_file>>
    /\ UNCHANGED <<mergeVars, scanVars, batchVars, playVars, idVars,
                   lookupVars, persistVars, filterVars, cycleVars, autoVars,
                   listVars, quickVars, remergeVars>>

\* POST /api/device/<device_id>/volume: 404 for an id the registry does not
\* hold; else the volume is posted to the device and, on a 200, stored in
\* the device's record, which update_device puts back
SetDeviceVolume(id, volume, resp) ==
    /\ registry_class = "network_wrapper"
    /\ LET found == get_device(registry_devices, id)
       IN  IF found = <<>>
           THEN /\ http_status' = 404
                /\ UNCHANGED registry_devices
           ELSE IF resp = "200"
           THEN /\ http_status' = 200
                /\ registry_devices' =
                        update_device(registry_devices,
                                      SetField(found[1], "volume", volume))
           ELSE /\ http_status' = 500
                /\ UNCHANGED registry_devices
    /\ server_op' = "volume"
    /\ UNCHANGED <<registry_class, registry_file>>
    /\ UNCHANGED <<mergeVars, scanVars, batchVars, playVars, idVars,
                   lookupVars, persistVars, filterVars, cycleVars, autoVars,
                   listVars, quickVars, remergeVars>>

\* POST /api/devices/clear: clear_all_devices writes an empty device map
\* and returns True, or returns False when the write raises; after a True
\* the registry is reloaded and the response is a success
ClearAllDevices(written) ==
    /\ registry_class = "network_wrapper"
    /\ IF written
       THEN /\ registry_file' = <<empty_map(now)>>
            /\ registry_devices' =
                    load_registry(registry_devices, DevicesOf(registry_file'), 1)
            /\ http_status' = 200
       ELSE /\ http_status' = 500
            /\ UNCHANGED <<registry_file, registry_devices>>
    /\ server_op' = "clear"
    /\ UNCHANGED registry_class
    /\ UNCHANGED <<mergeVars, scanVars, batchVars, playVars, idVars,
                   lookupVars, persistVars, filterVars, cycleVars, autoVars,
                   listVars, quickVars, remergeVars>>

\* a device as network_scanner's check_http_device reports it
ScannedDevice(ip, id, t) ==
    [ip |-> ip, type |-> "ESP32 Loudframe", status |-> "online",
     playing |-> FALSE, volume |-> 0, ssid |-> UNKNOWN, id |-> id,
     last_seen |-> t]

\* network_scanner.DeviceRegistry.save_registry
save_registry(devices, t) == <<[devices |-> devices, last_updated |-> t]>>

\* network_scanner.DeviceRegistry.update_device: a known device's record is
\* updated, a new one is stored with first_seen; then the registry is saved
NsUpdateDevice(info) ==
    /\ registry_class = "network_scanner"
    /\ LET stored == IF info.id \in Keys(registry_devices)
                     THEN Update(GetItem(registry_devices, info.id), info)
                     ELSE SetField(info, "first_seen", now)
       IN registry_devices' =
            SetItem(registry_devices, info.id, SetField(stored, "last_seen", now))
    /\ registry_file' = save_registry(registry_devices', now)
    /\ server_op' = "update"
    /\ UNCHANGED <<registry_class, http_status>>
    /\ UNCHANGED <<mergeVars, scanVars, batchVars, playVars, idVars,
                   lookupVars, persistVars, filterVars, cycleVars, autoVars,
                   listVars, quickVars, remergeVars>>

\* network_scanner.DeviceRegistry.remove_device
NsRemoveDevice(id) ==
    /\ registry_class = "network_scanner"
    /\ IF id \in Keys(registry_devices)
       THEN /\ registry_devices' =
                    SelectSeq(registry_devices, LAMBDA e : e.k # id)
            /\ registry_file' = save_registry(registry_devices', now)
       ELSE UNCHANGED <<registry_devices, registry_file>>
    /\ server_op' = "remove"
    /\ UNCHANGED <<registry_class, http_status>>
    /\ UNCHANGED <<mergeVars, scanVars, batchVars, playVars, idVars,
                   lookupVars, persistVars, filterVars, cycleVars, autoVars,
                   listVars, quickVars, remergeVars>>

\* network_scanner.DeviceRegistry.mark_offline
NsMarkOffline(id) ==
    /\ registry_class = "network_scanner"
    /\ IF id \in Keys(registry_devices)
       THEN /\ registry_devices' =
                    SetItem(registry_devices, id,
                            SetField(GetItem(registry_devices, id),
                                     "status", "offline"))
            /\ registry_file' = save_registry(registry_devices', now)
       ELSE UNCHANGED <<registry_devices, registry_file>>
    /\ server_op' = "offline"
    /\ UNCHANGED <<registry_class, http_status>>
    /\ UNCHANGED <<mergeVars, scanVars, batchVars, playVars, idVars,
                   lookupVars, persistVars, filterVars, cycleVars, autoVars,
                   listVars, quickVars, remergeVars>>

\* the server after start-up: DeviceRegistry() has loaded the registry file,
\* which is absent or as a scan left it (network_wrapper), or absent
\* (network_scanner)
InitServer ==
    /\ MergeIdle
    /\ ScanIdle
    /\ RemergeIdle
    /\ QuickIdle
    /\ ListIdle
    /\ AutoIdle
    /\ CycleIdle
    /\ FilterIdle
    /\ PersistIdle
    /\ BatchIdle
    /\ PlayIdle
    /\ IdIdle
    /\ LookupIdle
    /\ registry_class \in {"network_wrapper", "network_scanner"}
    /\ \/ registry_file = <<>>
       \/ /\ registry_class = "network_wrapper"
          /\ \E S \in SUBSET (1..NumServerDevices) :
                \E attr \in [S -> Ids \X BOOLEAN] :
                    registry_file =
                        <<save_device_map(FromList(ListOf(Ascending(S), attr), 1, <<>>),
                                          "add", now)>>
    /\ registry_devices = load_registry(<<>>, DevicesOf(registry_file), 1)
    /\ server_op = "none"
    /\ http_status = 0

NextServer ==
    \/ ReloadRegistry
    \/ \E id \in Ids, volume \in Volumes, resp \in Responses :
            SetDeviceVolume(id, volume, resp)
    \/ \E written \in BOOLEAN : ClearAllDevices(written)
    \/ \E ip \in IPs, id \in Ids : NsUpdateDevice(ScannedDevice(ip, id, now))
    \/ \E id \in Ids : NsRemoveDevice(id)
    \/ \E id \in Ids : NsMarkOffline(id)

SpecServer == InitServer /\ [][NextServer]_vars

\* ------------------------------------------ writing and reading the file
\* loads of the file by other processes during one save
MaxReads == 1

\* the JSON text of a map object, in the pieces json.dump writes it in: the
\* header fields, each device of the list, and the closing brackets
NumPieces(object) == Len(object.devices) + 2

\* a file holding the whole text of the object
WholeFile(object) == <<[of |-> object, pieces |-> NumPieces(object)]>>

\* json.load on the file: the object when the text is whole, else an error
\* (json.JSONDecodeError on an empty or cut-off text)
json_load(file) ==
    IF file[1].pieces = NumPieces(file[1].of)
    THEN [ok |-> TRUE, devices |-> file[1].of.devices]
    ELSE [ok |-> FALSE, devices |-> <<>>]

\* save_device_map: open(self.map_file, 'w') empties the file
OpenFile ==
    /\ save_pc = "start"
    /\ disk' = <<[of |-> output[1], pieces |-> 0]>>
    /\ save_pc' = "open"
    /\ UNCHANGED <<previous, output, observed>>
    /\ UNCHANGED <<mergeVars, scanVars, batchVars, playVars, idVars,
                   lookupVars, serverVars, filterVars, cycleVars, autoVars,
                   listVars, quickVars, remergeVars>>

\* json.dump(output, f): the next piece of the text reaches the file
WritePiece ==
    /\ save_pc = "open"
    /\ disk[1].pieces < NumPieces(output[1])
    /\ disk' = <<[disk[1] EXCEPT !.pieces = @ + 1]>>
    /\ UNCHANGED <<previous, output, save_pc, observed>>
    /\ UNCHANGED <<mergeVars, scanVars, batchVars, playVars, idVars,
                   lookupVars, serverVars, filterVars, cycleVars, autoVars,
                   listVars, quickVars, remergeVars>>

\* the with block ends: the file is closed with the whole text in it
CloseFile ==
    /\ save_pc = "open"
    /\ disk[1].pieces = NumPieces(output[1])
    /\ save_pc' = "closed"
    /\ UNCHANGED <<previous, output, disk, observed>>
    /\ UNCHANGED <<mergeVars, scanVars, batchVars, playVars, idVars,
                   lookupVars, serverVars, filterVars, cycleVars, autoVars,
                   listVars, quickVars, remergeVars>>

\* the scanner process is killed while the file is open
CrashInSave ==
    /\ save_pc = "open"
    /\ save_pc' = "crashed"
    /\ UNCHANGED <<previous, output, disk, observed>>
    /\ UNCHANGED <<mergeVars, scanVars, batchVars, playVars, idVars,
                   lookupVars, serverVars, filterVars, cycleVars, autoVars,
                   listVars, quickVars, remergeVars>>

\* another process loads the file (DeviceRegistry.load_registry): it gets
\* the device list, or the error that makes it fall back to no devices
ReadFile ==
    /\ save_pc # "none"
    /\ disk # <<>>
    /\ Len(observed) < MaxReads
    /\ observed' = Append(observed, json_load(disk))
    /\ UNCHANGED <<previous, output, save_pc, disk>>
    /\ UNCHANGED <<mergeVars, scanVars, batchVars, playVars, idVars,
                   lookupVars, serverVars, filterVars, cycleVars, autoVars,
                   listVars, quickVars, remergeVars>>

\* a scan is about to save its merged map to a file that is absent or
\* holds the map an earlier scan saved
InitPersist ==
    /\ MergeIdle
    /\ ScanIdle
    /\ RemergeIdle
    /\ QuickIdle
    /\ ListIdle
    /\ AutoIdle
    /\ CycleIdle
    /\ FilterIdle
    /\ BatchIdle
    /\ PlayIdle
    /\ IdIdle
    /\ LookupIdle
    /\ ServerIdle
    /\ \/ previous = <<>>
       \/ \E S \in SUBSET (1..NumServerDevices) :
            \E attr \in [S -> Ids \X BOOLEAN] :
                previous = <<save_device_map(
                                FromList(ListOf(Ascending(S), attr), 1, <<>>),
                                "add", now)>>
    /\ \E S \in SUBSET (1..NumServerDevices) :
        \E attr \in [S -> Ids \X BOOLEAN] :
            output = <<save_device_map(
                            FromList(ListOf(Ascending(S), attr), 1, <<>>),
                            "add", now)>>
    /\ save_pc = "start"
    /\ disk = IF previous = <<>> THEN <<>> ELSE WholeFile(previous[1])
    /\ observed = <<>>

NextPersist ==
    \/ OpenFile
    \/ WritePiece
    \/ CloseFile
    \/ CrashInSave
    \/ ReadFile

SpecPersist == InitPersist /\ [][NextPersist]_vars

\* ------------------------------------------- batch_controller device filter
NumFilterDevices == 2
NumFilterIds == 2

\* the ids of the map's devices
FilterIds == 1..NumFilterIds

\* the 'online' key of a device entry: true, false, or not in the entry
OnlineKeys == {"true", "false", "absent"}

\* d.get('online', False)
GetOnline(d) == d.online = "true"

\* pattern.search(d.get('id', '')) is not None, the pattern given as the
\* ids it matches
PatternSearch(pattern, d) == d.id \in pattern

\* load_device_map: exits with status 1 when the file is missing; else keeps
\* the whole list in self.devices and returns the online devices of it
LoadDeviceMap ==
    /\ filter_pc = "start"
    /\ IF map_data = <<>>
       THEN /\ filter_pc' = "exited"
            /\ exit_code' = 1
            /\ UNCHANGED <<controller_devices, devices_local>>
       ELSE /\ controller_devices' = map_data[1]
            /\ devices_local' = SelectSeq(map_data[1], GetOnline)
            /\ filter_pc' = "loaded"
            /\ UNCHANGED exit_code
    /\ UNCHANGED <<map_data, all_devices, filter_id, dispatch_targets>>
    /\ UNCHANGED <<mergeVars, scanVars, batchVars, playVars, idVars,
                   lookupVars, serverVars, persistVars, cycleVars, autoVars,
                   listVars, quickVars, remergeVars>>

\* main's filters on the list load_device_map returned, and its exit when
\* no device is left
ApplyFilters ==
    /\ filter_pc = "loaded"
    /\ LET by_online == IF ~all_devices
                        THEN SelectSeq(devices_local, GetOnline)
                        ELSE devices_local
           by_id == IF filter_id # <<>>
                    THEN SelectSeq(by_online,
                                   LAMBDA d : PatternSearch(filter_id[1], d))
                    ELSE by_online
       IN /\ devices_local' = by_id
          /\ IF by_id = <<>>
             THEN /\ filter_pc' = "exited"
                  /\ exit_code' = 1
             ELSE /\ filter_pc' = "filtered"
                  /\ UNCHANGED exit_code
    /\ UNCHANGED <<map_data, all_devices, filter_id, controller_devices,
                   dispatch_targets>>
    /\ UNCHANGED <<mergeVars, scanVars, batchVars, playVars, idVars,
                   lookupVars, serverVars, persistVars, cycleVars, autoVars,
                   listVars, quickVars, remergeVars>>

\* main runs the command on the filtered list
ExecuteCommand ==
    /\ filter_pc = "filtered"
    /\ dispatch_targets' = devices_local
    /\ filter_pc' = "dispatch"
    /\ UNCHANGED <<map_data, all_devices, filter_id, controller_devices,
                   devices_local, exit_code>>
    /\ UNCHANGED <<mergeVars, scanVars, batchVars, playVars, idVars,
                   lookupVars, serverVars, persistVars, cycleVars, autoVars,
                   listVars, quickVars, remergeVars>>

InitFilter ==
    /\ MergeIdle
    /\ ScanIdle
    /\ RemergeIdle
    /\ QuickIdle
    /\ ListIdle
    /\ AutoIdle
    /\ CycleIdle
    /\ PersistIdle
    /\ ServerIdle
    /\ LookupIdle
    /\ BatchIdle
    /\ PlayIdle
    /\ IdIdle
    /\ \/ map_data = <<>>
       \/ \E ids \in [1..NumFilterDevices -> FilterIds] :
          \E on \in [1..NumFilterDevices -> OnlineKeys] :
              map_data = << [i \in 1..NumFilterDevices |->
                               [ip |-> i, id |-> ids[i], online |-> on[i]]] >>
    /\ all_devices \in BOOLEAN
    /\ \/ filter_id = <<>>
       \/ \E pattern \in SUBSET FilterIds : filter_id = <<pattern>>
    /\ filter_pc = "start"
    /\ controller_devices = <<>>
    /\ devices_local = <<>>
    /\ dispatch_targets = <<>>
    /\ exit_code = 0

NextFilter ==
    \/ LoadDeviceMap
    \/ ApplyFilters
    \/ ExecuteCommand

SpecFilter == InitFilter /\ [][NextFilter]_vars

\* ------------------------------------------------ the server's scan cycles
NumCycles == 2
NumNetMacs == 2

Cycles == 1..NumCycles
\* the devices on the scanned networks, the device with MAC m at address m
NetMacs == 1..NumNetMacs

\* the discovered_devices of a scan at time t that the devices with the
\* MACs in S answer, in the order of their addresses
DiscoveredBy(S, t) ==
    FromList([k \in 1..Cardinality(S) |->
                device_info(Ascending(S)[k], StatusData(Ascending(S)[k], 1), t)],
             1, <<>>)

\* a cycle has ended: the scanner process has exited
CycleEnded(p) == cycle_pc[p] \in {"exited", "failed"}

\* scan_network starts device_scanner.py with --action add, which loads the
\* existing map; scan_all_networks starts a network's scan when the scan of
\* the network before has ended
CycleLoad(p) ==
    /\ cycle_pc[p] = "waiting"
    /\ sequential => \A q \in 1..(p - 1) : CycleEnded(q)
    /\ cycle_existing' =
            [cycle_existing EXCEPT ![p] = load_existing_map(device_map_file)]
    /\ cycle_pc' = [cycle_pc EXCEPT ![p] = "loaded"]
    /\ UNCHANGED <<device_map_file, sequential, cycle_answers,
                   cycle_discovered>>
    /\ UNCHANGED <<mergeVars, scanVars, batchVars, playVars, idVars,
                   lookupVars, serverVars, persistVars, filterVars, autoVars,
                   listVars, quickVars, remergeVars>>

\* the scanner probes its network
CycleScan(p) ==
    /\ cycle_pc[p] = "loaded"
    /\ cycle_discovered' =
            [cycle_discovered EXCEPT ![p] = DiscoveredBy(cycle_answers[p], p)]
    /\ cycle_pc' = [cycle_pc EXCEPT ![p] = "scanned"]
    /\ UNCHANGED <<device_map_file, sequential, cycle_answers, cycle_existing>>
    /\ UNCHANGED <<mergeVars, scanVars, batchVars, playVars, idVars,
                   lookupVars, serverVars, persistVars, filterVars, autoVars,
                   listVars, quickVars, remergeVars>>

\* the scanner merges what it discovered into the map it loaded and writes
\* the map file
CycleSave(p) ==
    /\ cycle_pc[p] = "scanned"
    /\ device_map_file' =
            <<save_device_map(merge_device_maps("add", cycle_existing[p],
                                                cycle_discovered[p]),
                              "add", p)>>
    /\ cycle_pc' = [cycle_pc EXCEPT ![p] = "exited"]
    /\ UNCHANGED <<sequential, cycle_answers, cycle_existing, cycle_discovered>>
    /\ UNCHANGED <<mergeVars, scanVars, batchVars, playVars, idVars,
                   lookupVars, serverVars, persistVars, filterVars, autoVars,
                   listVars, quickVars, remergeVars>>

\* the scanner process ends with a non-zero return code before it writes
CycleFail(p) ==
    /\ cycle_pc[p] \in {"loaded", "scanned"}
    /\ cycle_pc' = [cycle_pc EXCEPT ![p] = "failed"]
    /\ UNCHANGED <<device_map_file, sequential, cycle_answers, cycle_existing,
                   cycle_discovered>>
    /\ UNCHANGED <<mergeVars, scanVars, batchVars, playVars, idVars,
                   lookupVars, serverVars, persistVars, filterVars, autoVars,
                   listVars, quickVars, remergeVars>>

\* the map file before the cycles: absent, or written by an earlier scan
\* that knew the devices in S, those in On online
InitCycles ==
    /\ MergeIdle
    /\ ScanIdle
    /\ RemergeIdle
    /\ QuickIdle
    /\ ListIdle
    /\ AutoIdle
    /\ FilterIdle
    /\ PersistIdle
    /\ ServerIdle
    /\ LookupIdle
    /\ BatchIdle
    /\ PlayIdle
    /\ IdIdle
    /\ \/ device_map_file = <<>>
       \/ \E S \in SUBSET NetMacs : \E On \in SUBSET S :
            device_map_file =
                <<save_device_map(
                    MergeAdd(DiscoveredBy(S, 0), DiscoveredBy(On, 0)),
                    "add", 0)>>
    /\ cycle_answers \in [Cycles -> SUBSET NetMacs]
    /\ cycle_pc = [p \in Cycles |-> "waiting"]
    /\ cycle_existing = [p \in Cycles |-> <<>>]
    /\ cycle_discovered = [p \in Cycles |-> <<>>]

\* scan_all_networks: one cycle per network, a device being on one network
InitNetworks ==
    /\ InitCycles
    /\ sequential = TRUE
    /\ \A p, q \in Cycles : p # q => cycle_answers[p] \cap cycle_answers[q] = {}

\* a manual scan and a background scan, or two manual scans
InitOverlap ==
    /\ InitCycles
    /\ sequential = FALSE

NextCycles ==
    \/ \E p \in Cycles : CycleLoad(p)
    \/ \E p \in Cycles : CycleScan(p)
    \/ \E p \in Cycles : CycleSave(p)
    \/ \E p \in Cycles : CycleFail(p)

SpecNetworks == InitNetworks /\ [][NextCycles]_vars

SpecOverlap == InitOverlap /\ [][NextCycles]_vars

\* ------------------------------------------------------ automatic scanning
\* background_scan threads the server starts at most
MaxLoops == 3

\* start_auto_scan: starts a background_scan thread unless scan_active is set
HandleAutoScanStart ==
    /\ ~scan_active
    /\ Len(loop_pc) < MaxLoops
    /\ scan_active' = TRUE
    /\ loop_pc' = Append(loop_pc, "check")
    /\ UNCHANGED <<mergeVars, scanVars, batchVars, playVars, idVars,
                   lookupVars, serverVars, persistVars, filterVars, cycleVars,
                   listVars, quickVars, remergeVars>>

\* stop_auto_scan: clears scan_active
HandleAutoScanStop ==
    /\ scan_active
    /\ scan_active' = FALSE
    /\ UNCHANGED loop_pc
    /\ UNCHANGED <<mergeVars, scanVars, batchVars, playVars, idVars,
                   lookupVars, serverVars, persistVars, filterVars, cycleVars,
                   listVars, quickVars, remergeVars>>

\* while scan_active: the thread goes into a scan when the flag is set and
\* ends when it is not
LoopCheck(t) ==
    /\ loop_pc[t] = "check"
    /\ loop_pc' = [loop_pc EXCEPT ![t] = IF scan_active THEN "scanning"
                                                        ELSE "ended"]
    /\ UNCHANGED scan_active
    /\ UNCHANGED <<mergeVars, scanVars, batchVars, playVars, idVars,
                   lookupVars, serverVars, persistVars, filterVars, cycleVars,
                   listVars, quickVars, remergeVars>>

\* scan_all_networks returned; the thread reloads the registry, emits the
\* update and goes into time.sleep(30)
LoopScanned(t) ==
    /\ loop_pc[t] = "scanning"
    /\ loop_pc' = [loop_pc EXCEPT ![t] = "sleeping"]
    /\ UNCHANGED scan_active
    /\ UNCHANGED <<mergeVars, scanVars, batchVars, playVars, idVars,
                   lookupVars, serverVars, persistVars, filterVars, cycleVars,
                   listVars, quickVars, remergeVars>>

\* the sleep is over
LoopWake(t) ==
    /\ loop_pc[t] = "sleeping"
    /\ loop_pc' = [loop_pc EXCEPT ![t] = "check"]
    /\ UNCHANGED scan_active
    /\ UNCHANGED <<mergeVars, scanVars, batchVars, playVars, idVars,
                   lookupVars, serverVars, persistVars, filterVars, cycleVars,
                   listVars, quickVars, remergeVars>>

InitAutoScan ==
    /\ MergeIdle
    /\ ScanIdle
    /\ RemergeIdle
    /\ QuickIdle
    /\ ListIdle
    /\ CycleIdle
    /\ FilterIdle
    /\ PersistIdle
    /\ ServerIdle
    /\ LookupIdle
    /\ BatchIdle
    /\ PlayIdle
    /\ IdIdle
    /\ scan_active = FALSE
    /\ loop_pc = <<>>

NextAutoScan ==
    \/ HandleAutoScanStart
    \/ HandleAutoScanStop
    \/ \E t \in DOMAIN loop_pc : LoopCheck(t)
    \/ \E t \in DOMAIN loop_pc : LoopScanned(t)
    \/ \E t \in DOMAIN loop_pc : LoopWake(t)

SpecAutoScan == InitAutoScan /\ [][NextAutoScan]_vars

\* ------------------------------------------------------- GET /api/devices
\* device listings handled at most
MaxListings == 2

\* how a status probe ends: HTTP 200, another status, requests.Timeout
ProbeResults == {"200", "500", "Timeout"}

\* load_registry on the registry's objects: every device of the file is a
\* new dict object, put under its id; keys the file does not hold keep
\* their object
RECURSIVE LoadObjects(_, _, _)
LoadObjects(state, file_devices, i) ==
    IF i > Len(file_devices) THEN state
    ELSE LoadObjects(
            [heap |-> Append(state.heap, file_devices[i]),
             refs |-> SetItem(state.refs, file_devices[i].id,
                              Len(state.heap) + 1)],
            file_devices, i + 1)

\* the handler's changes to the probed dict object: on a 200 the MAC and,
\* if it differs, the id the device reports; else online = False
AfterProbe(device, resp, reported) ==
    IF resp = "200"
    THEN [device EXCEPT !.mac_address = MacStr(device.ip_address, FALSE),
                        !.id = reported]
    ELSE [device EXCEPT !.online = FALSE]

\* get_devices reloads the registry and takes the list of its devices
GetDevicesBegin ==
    /\ list_pc = "idle"
    /\ listings < MaxListings
    /\ LET loaded == LoadObjects([heap |-> registry_heap, refs |-> registry_refs],
                                 DevicesOf(list_file), 1)
       IN  /\ registry_heap' = loaded.heap
           /\ registry_refs' = loaded.refs
           /\ listed' = Values(loaded.refs)
    /\ listings' = listings + 1
    /\ list_idx' = 1
    /\ probe_outcomes' = <<>>
    /\ list_pc' = "probing"
    /\ UNCHANGED list_file
    /\ UNCHANGED <<mergeVars, scanVars, batchVars, playVars, idVars,
                   lookupVars, serverVars, persistVars, filterVars, cycleVars,
                   autoVars, quickVars, remergeVars>>

\* one pass of the loop: the device's /api/status is requested, the dict
\* object is changed in place and update_device puts it under its id
GetDevicesProbe(resp, reported) ==
    /\ list_pc = "probing"
    /\ list_idx <= Len(listed)
    /\ LET r == listed[list_idx]
           device == AfterProbe(registry_heap[r], resp, reported)
       IN  /\ registry_heap' = [registry_heap EXCEPT ![r] = device]
           /\ registry_refs' = SetItem(registry_refs, device.id, r)
           /\ probe_outcomes' =
                Append(probe_outcomes,
                       [resp |-> resp, before |-> registry_heap[r].online])
    /\ list_idx' = list_idx + 1
    /\ UNCHANGED <<list_file, list_pc, listings, listed>>
    /\ UNCHANGED <<mergeVars, scanVars, batchVars, playVars, idVars,
                   lookupVars, serverVars, persistVars, filterVars, cycleVars,
                   autoVars, quickVars, remergeVars>>

\* every device of the list was probed: the handler responds
GetDevicesReturn ==
    /\ list_pc = "probing"
    /\ list_idx > Len(listed)
    /\ list_pc' = "idle"
    /\ UNCHANGED <<list_file, registry_heap, registry_refs, listings, listed,
                   list_idx, probe_outcomes>>
    /\ UNCHANGED <<mergeVars, scanVars, batchVars, playVars, idVars,
                   lookupVars, serverVars, persistVars, filterVars, cycleVars,
                   autoVars, quickVars, remergeVars>>

\* the server starts: the registry is constructed from the map file, which
\* a scan wrote (one record for each MAC)
InitListing ==
    /\ MergeIdle
    /\ ScanIdle
    /\ RemergeIdle
    /\ QuickIdle
    /\ AutoIdle
    /\ CycleIdle
    /\ FilterIdle
    /\ PersistIdle
    /\ ServerIdle
    /\ LookupIdle
    /\ BatchIdle
    /\ PlayIdle
    /\ IdIdle
    /\ \/ list_file = <<>>
       \/ \E S \in SUBSET (1..NumServerDevices) :
            \E attr \in [S -> Ids \X BOOLEAN] :
                list_file =
                    <<save_device_map(FromList(ListOf(Ascending(S), attr), 1, <<>>),
                                      "add", 0)>>
    /\ LET loaded == LoadObjects([heap |-> <<>>, refs |-> <<>>],
                                 DevicesOf(list_file), 1)
       IN  /\ registry_heap = loaded.heap
           /\ registry_refs = loaded.refs
    /\ list_pc = "idle"
    /\ listings = 0
    /\ listed = <<>>
    /\ list_idx = 0
    /\ probe_outcomes = <<>>

NextListing ==
    \/ GetDevicesBegin
    \/ \E resp \in ProbeResults, reported \in Ids : GetDevicesProbe(resp, reported)
    \/ GetDevicesReturn

SpecListing == InitListing /\ [][NextListing]_vars

\* --------------------------------------------------------------- quick_scan
\* the addresses of the devices, the device with MAC m at address m
NumQuickIps == 3
QuickIps == 1..NumQuickIps

\* ipaddress.ip_network(f"{ip}/24", strict=False): the /24 subnet of an
\* address, the addresses 1 and 2 being in one subnet, 3 and 4 in the next
SubnetOf(ip) == (ip + 1) \div 2

\* the keys of the dict `subnets`, in the order the addresses put them in
RECURSIVE SubnetKeys(_, _, _)
SubnetKeys(ips, i, acc) ==
    IF i > Len(ips) THEN acc
    ELSE SubnetKeys(ips, i + 1,
                    IF \E j \in DOMAIN acc : acc[j] = SubnetOf(ips[i])
                    THEN acc ELSE Append(acc, SubnetOf(ips[i])))

\* quick_scan returns [] for no addresses, else groups them by subnet
QuickScanBegin ==
    /\ quick_pc = "call"
    /\ subnets' = SubnetKeys(Ascending(device_ips), 1, <<>>)
    /\ quick_pc' = IF device_ips = {} THEN "returned" ELSE "scanning"
    /\ UNCHANGED <<quick_file, quick_before, device_ips, quick_answers,
                   quick_result>>
    /\ UNCHANGED <<mergeVars, scanVars, batchVars, playVars, idVars,
                   lookupVars, serverVars, persistVars, filterVars, cycleVars,
                   autoVars, listVars, remergeVars>>

\* one pass of the loop over the subnets: scan_network runs device_scanner.py
\* on the whole subnet with --action update; when it succeeded the devices
\* of the written map with an address asked for are added to all_devices
QuickScanSubnet(succeeded) ==
    /\ quick_pc = "scanning"
    /\ subnets # <<>>
    /\ LET found == {m \in quick_answers : SubnetOf(m) = Head(subnets)}
           written == save_device_map(
                        merge_device_maps("update",
                                          load_existing_map(quick_file),
                                          DiscoveredBy(found, 1)),
                        "update", 1)
       IN  IF succeeded
           THEN /\ quick_file' = <<written>>
                /\ quick_result' =
                        quick_result \o
                        SelectSeq(written.devices,
                                  LAMBDA d : d.ip_address \in device_ips)
           ELSE UNCHANGED <<quick_file, quick_result>>
    /\ subnets' = Tail(subnets)
    /\ UNCHANGED <<quick_before, device_ips, quick_answers, quick_pc>>
    /\ UNCHANGED <<mergeVars, scanVars, batchVars, playVars, idVars,
                   lookupVars, serverVars, persistVars, filterVars, cycleVars,
                   autoVars, listVars, remergeVars>>

\* every subnet was scanned
QuickScanReturn ==
    /\ quick_pc = "scanning"
    /\ subnets = <<>>
    /\ quick_pc' = "returned"
    /\ UNCHANGED <<quick_file, quick_before, device_ips, quick_answers,
                   subnets, quick_result>>
    /\ UNCHANGED <<mergeVars, scanVars, batchVars, playVars, idVars,
                   lookupVars, serverVars, persistVars, filterVars, cycleVars,
                   autoVars, listVars, remergeVars>>

\* quick_scan(device_ips) on a map an earlier scan wrote, which knew the
\* devices in S, those in On online
InitQuick ==
    /\ MergeIdle
    /\ ScanIdle
    /\ RemergeIdle
    /\ ListIdle
    /\ AutoIdle
    /\ CycleIdle
    /\ FilterIdle
    /\ PersistIdle
    /\ ServerIdle
    /\ LookupIdle
    /\ BatchIdle
    /\ PlayIdle
    /\ IdIdle
    /\ \/ quick_file = <<>>
       \/ \E S \in SUBSET QuickIps : \E On \in SUBSET S :
            quick_file =
                <<save_device_map(
                    MergeAdd(DiscoveredBy(S, 0), DiscoveredBy(On, 0)),
                    "add", 0)>>
    /\ quick_before = quick_file
    /\ device_ips \in SUBSET QuickIps
    /\ quick_answers \in SUBSET QuickIps
    /\ quick_pc = "call"
    /\ subnets = <<>>
    /\ quick_result = <<>>

NextQuick ==
    \/ QuickScanBegin
    \/ \E succeeded \in BOOLEAN : QuickScanSubnet(succeeded)
    \/ QuickScanReturn

SpecQuick == InitQuick /\ [][NextQuick]_vars

\* ------------------------------------- merge_device_maps on dict objects
\* the value of a dict {mac: reference}: each reference replaced by the
\* record its object holds
Deref(heap, map) ==
    [i \in DOMAIN map |-> [k |-> map[i].k, v |-> heap[map[i].v]]]

\* the dict {mac: reference} of a dict of records whose objects are at
\* the references base + 1, base + 2, ...
RefsOf(d, base) == [i \in DOMAIN d |-> [k |-> d[i].k, v |-> base + i]]

\* for mac in merged: merged[mac]['online'] = False, on the objects
MarkObjectsOffline(heap, merged) ==
    [r \in DOMAIN heap |->
        IF \E i \in DOMAIN merged : merged[i].v = r
        THEN SetField(heap[r], "online", FALSE) ELSE heap[r]]

\* the add loop on the objects: merged[mac].update(device) changes the
\* object merged holds, merged[mac] = device puts the object of `new`
\* itself into merged
RECURSIVE AddObjects(_, _, _)
AddObjects(state, new, i) ==
    IF i > Len(new) THEN state
    ELSE AddObjects(
            IF new[i].k \in Keys(state.map)
            THEN [heap |-> [state.heap EXCEPT ![GetItem(state.map, new[i].k)] =
                                Update(@, state.heap[new[i].v])],
                  map |-> state.map]
            ELSE [heap |-> state.heap,
                  map |-> SetItem(state.map, new[i].k, new[i].v)],
            new, i + 1)

\* the update loop on the objects
RECURSIVE UpdateObjects(_, _, _)
UpdateObjects(state, new, i) ==
    IF i > Len(new) THEN state
    ELSE UpdateObjects(
            IF new[i].k \in Keys(state.map)
            THEN [heap |-> [state.heap EXCEPT ![GetItem(state.map, new[i].k)] =
                                Update(@, state.heap[new[i].v])],
                  map |-> state.map]
            ELSE state,
            new, i + 1)

\* merge_device_maps on the objects: existing.copy() is a new dict that
\* holds the same record objects
MergeObjects(m, heap, existing, new) ==
    CASE m = "create" -> [heap |-> heap, map |-> new]
      [] m = "add" ->
            AddObjects([heap |-> MarkObjectsOffline(heap, existing),
                        map |-> existing], new, 1)
      [] m = "update" ->
            UpdateObjects([heap |-> MarkObjectsOffline(heap, existing),
                           map |-> existing], new, 1)

\* merged = merge_device_maps(existing, new)
FirstMerge ==
    /\ remerge_pc = "call"
    /\ LET ret == MergeObjects(remerge_mode, objects, remerge_existing,
                               remerge_new)
       IN  /\ objects' = ret.heap
           /\ returned_map' = ret.map
           /\ first_result' = Deref(ret.heap, ret.map)
    /\ remerge_pc' = "once"
    /\ UNCHANGED <<remerge_mode, remerge_existing, remerge_new, second_result>>
    /\ UNCHANGED <<mergeVars, scanVars, batchVars, playVars, idVars,
                   lookupVars, serverVars, persistVars, filterVars, cycleVars,
                   autoVars, listVars, quickVars>>

\* merge_device_maps(merged, new), with the same `new`
SecondMerge ==
    /\ remerge_pc = "once"
    /\ LET ret == MergeObjects(remerge_mode, objects, returned_map, remerge_new)
       IN  /\ objects' = ret.heap
           /\ second_result' = Deref(ret.heap, ret.map)
    /\ remerge_pc' = "twice"
    /\ UNCHANGED <<remerge_mode, remerge_existing, remerge_new, returned_map,
                   first_result>>
    /\ UNCHANGED <<mergeVars, scanVars, batchVars, playVars, idVars,
                   lookupVars, serverVars, persistVars, filterVars, cycleVars,
                   autoVars, listVars, quickVars>>

\* the existing and the discovered map of a merge call, every record a dict
\* object of its own
InitRemerge ==
    /\ MergeIdle
    /\ ScanIdle
    /\ QuickIdle
    /\ ListIdle
    /\ AutoIdle
    /\ CycleIdle
    /\ FilterIdle
    /\ PersistIdle
    /\ ServerIdle
    /\ LookupIdle
    /\ BatchIdle
    /\ PlayIdle
    /\ IdIdle
    /\ remerge_mode \in Modes
    /\ \E e \in DictsOver([m \in MACs |-> ExistingRecords(m)]) :
        \E d \in DictsOver([m \in MACs |-> DiscoveredRecords(m)]) :
            /\ objects = Values(e) \o Values(d)
            /\ remerge_existing = RefsOf(e, 0)
            /\ remerge_new = RefsOf(d, Len(e))
    /\ remerge_pc = "call"
    /\ returned_map = <<>>
    /\ first_result = <<>>
    /\ second_result = <<>>

NextRemerge ==
    \/ FirstMerge
    \/ SecondMerge

SpecRemerge == InitRemerge /\ [][NextRemerge]_vars

\* ---------------------------------------------------- claims on the merge
\* d restricted to the keys in keys, order kept
Restrict(d, keys) == SelectSeq(d, LAMBDA e : e.k \in keys)

Returned(m) == mergePc = "returned" /\ argMode = m

\* C1: under update the key set is frozen: the MAC keys of the result are
\* exactly the MAC keys of existing; a discovered MAC not in existing is
\* dropped, never inserted.
C1_UpdateKeySetFrozen ==
    Returned("update") =>
        /\ Keys(retMerged) = Keys(argExisting)
        /\ \A mac \in Keys(argNew) \ Keys(argExisting) : mac \notin Keys(retMerged)

\* existing={A}, discovered={A',B}
C1_Witness ==
    /\ Returned("update")
    /\ Keys(argNew) \ Keys(argExisting) # {}
    /\ Keys(argNew) \cap Keys(argExisting) # {}

\* C2: under add every MAC of existing is a key of the result, and each
\* existing record whose MAC was not discovered has online = FALSE.
C2_AddRetainsUnreachable ==
    Returned("add") =>
        \A mac \in Keys(argExisting) :
            /\ mac \in Keys(retMerged)
            /\ mac \notin Keys(argNew) => GetItem(retMerged, mac).online = FALSE

\* an existing record that was online and is not discovered
C2_Witness ==
    /\ Returned("add")
    /\ \E mac \in Keys(argExisting) \ Keys(argNew) :
            GetItem(argExisting, mac).online = TRUE

\* C3: under create the result is the discovered map exactly; no existing
\* record whose MAC is absent from discovered survives.
C3_CreateDiscardsExisting ==
    Returned("create") =>
        /\ retMerged = argNew
        /\ \A mac \in Keys(argExisting) \ Keys(argNew) : mac \notin Keys(retMerged)

\* existing={A,B}, discovered={C}: an existing MAC is absent from discovered
C3_Witness ==
    /\ Returned("create")
    /\ Keys(argExisting) \ Keys(argNew) # {}
    /\ argNew # <<>>

\* C5: under add a discovered record whose MAC is present is merged field by
\* field (discovered value for every reported field, existing value for
\* every other field, online = TRUE); one whose MAC is absent is inserted.
C5_AddFieldLevelMerge ==
    Returned("add") =>
        \A i \in DOMAIN argNew :
            LET mac == argNew[i].k
                device == argNew[i].v
            IN  /\ mac \in Keys(retMerged)
                /\ IF mac \in Keys(argExisting)
                   THEN LET old == GetItem(argExisting, mac)
                            res == GetItem(retMerged, mac)
                        IN  /\ DOMAIN res = DOMAIN old \cup DOMAIN device
                            /\ \A f \in DOMAIN device : res[f] = device[f]
                            /\ \A f \in DOMAIN old \ DOMAIN device : res[f] = old[f]
                            /\ res.online = TRUE
                   ELSE GetItem(retMerged, mac) = device

\* a known MAC whose existing record has a field the scan does not report,
\* and an unknown MAC
C5_Witness ==
    /\ Returned("add")
    /\ \E mac \in Keys(argExisting) \cap Keys(argNew) :
            DOMAIN GetItem(argExisting, mac) \ DOMAIN GetItem(argNew, mac) # {}
    /\ Keys(argNew) \ Keys(argExisting) # {}

\* an existing record that was not discovered is kept, with online = FALSE
\* and every other field as it was
KeptOffline(mac) ==
    /\ mac \in Keys(retMerged)
    /\ GetItem(retMerged, mac) = SetField(GetItem(argExisting, mac), "online", FALSE)

\* C6 as stated: under all three policies every existing device whose MAC is
\* not discovered is in the result, unchanged except online = FALSE.
C6_AllPoliciesKeepAbsent ==
    mergePc = "returned" =>
        \A mac \in Keys(argExisting) \ Keys(argNew) : KeptOffline(mac)

\* C6 amended: under add and update every existing device whose MAC is not
\* discovered is in the result, unchanged except online = FALSE.
C6_AddUpdateKeepAbsent ==
    (Returned("add") \/ Returned("update")) =>
        \A mac \in Keys(argExisting) \ Keys(argNew) : KeptOffline(mac)

\* under update, an existing online record with a further field is not discovered
C6_Witness ==
    /\ Returned("update")
    /\ \E mac \in Keys(argExisting) \ Keys(argNew) :
            /\ GetItem(argExisting, mac).online = TRUE
            /\ "notes" \in DOMAIN GetItem(argExisting, mac)

\* C8: update equals add applied to the discovered map restricted to the
\* MACs of existing.
C8_UpdateIsAddOnKnown ==
    Returned("update") =>
        retMerged = MergeAdd(argExisting, Restrict(argNew, Keys(argExisting)))

\* discovered holds a known MAC, whose existing record has a further field,
\* and an unknown MAC
C8_Witness ==
    /\ Returned("update")
    /\ Keys(argNew) \ Keys(argExisting) # {}
    /\ \E mac \in Keys(argNew) \cap Keys(argExisting) :
            "notes" \in DOMAIN GetItem(argExisting, mac)

\* ---------------------------------------------- claims on the scanner run
\* the device list of the persisted registry
FileDevices == IF mapFile = <<>> THEN <<>> ELSE mapFile[1].devices

\* C4: over completed scan cycles that use only add, or a create followed by
\* adds, the MAC keys of the persisted registry never shrink: a MAC persisted
\* after one cycle of the sequence is persisted after every later one.
C4_KeysMonotoneUnderAdd == persistedSince \subseteq FileKeys(mapFile)

\* an add run has completed on a registry that held a MAC the run did not
\* discover
C4_Witness ==
    /\ pc = "done"
    /\ mode = "add"
    /\ Keys(existing_map) \ Keys(discovered_devices) # {}
    /\ Keys(discovered_devices) \ Keys(existing_map) # {}

\* C7: after a completed scan cycle a persisted record has online = TRUE only
\* if its MAC was returned by a successful probe of that cycle, and every
\* record not reconfirmed in the cycle has online = FALSE.
C7_OnlineOnlyIfProbed ==
    pc = "done" =>
        \A i \in DOMAIN FileDevices :
            /\ FileDevices[i].online = TRUE => FileDevices[i].mac_address \in probedOk
            /\ FileDevices[i].mac_address \notin probedOk => FileDevices[i].online = FALSE

\* a completed run reconfirmed one record and not another that an earlier run
\* had stored as online
C7_Witness ==
    /\ pc = "done"
    /\ \E i \in DOMAIN FileDevices : FileDevices[i].online = TRUE
    /\ \E mac \in Keys(existing_map) \ probedOk :
            \E i \in DOMAIN FileDevices :
                /\ FileDevices[i].mac_address = mac
                /\ FileDevices[i].last_seen < now

\* ------------------------------------------- claims on the batch dispatch
\* the result a device's own answer determines: what its operation records
\* when nothing but the device decides how the request ends
OwnResult(i) ==
    OperationResult(i, IF behaviour[i] = "hang" THEN "timeout" ELSE behaviour[i])

\* C9: in a batch dispatch, for any number of devices (more than the
\* concurrency limit included), the success/error outcome recorded for a
\* device depends only on that device's own response.
C9_OutcomeIndependent ==
    bpc = "returned" =>
        \A i \in 1..NumTargets :
            /\ batch_results[i].success = OwnResult(i).success
            /\ batch_results[i].error = OwnResult(i).error

\* C10: a batch dispatch returns exactly one result per input device, with
\* reachable devices marked success and unreachable ones marked failed with
\* an error, whatever the position of the unreachable devices.
C10_OneResultPerDevice ==
    bpc = "returned" =>
        /\ Len(batch_results) = NumTargets
        /\ \A i \in 1..NumTargets :
              /\ Cardinality({j \in DOMAIN batch_results :
                    batch_results[j].ip_address = targets[i].ip_address}) = 1
              /\ behaviour[i] = "ok" => batch_results[i].success = TRUE
              /\ behaviour[i] \in {"refused", "hang"} =>
                    /\ batch_results[i].success = FALSE
                    /\ batch_results[i].error # "None"

\* Where the two claims above do hold: every dispatch returns one result per
\* device in input order, and the recorded outcome is the device's own when
\* no request has to wait for a connection (process_devices_batch, whose
\* slices never exceed the limit, and batch_request with enough connections).
BatchResultsComplete ==
    bpc = "returned" =>
        /\ Len(batch_results) = NumTargets
        /\ \A i \in 1..NumTargets :
                batch_results[i].ip_address = targets[i].ip_address

OutcomeOwnWithoutQueueing ==
    (bpc = "returned" /\
        (dispatcher = "process_devices_batch" \/ batch_limit >= NumTargets)) =>
        \A i \in 1..NumTargets : batch_results[i] = OwnResult(i)

\* the fixed-size window of the device list that device i falls in
WindowOf(i) == (i - 1) \div batch_limit

\* C11: batch dispatch concurrency is bounded by the limit: the devices are
\* processed in windows of at most concurrent_limit devices, no operation of
\* a later window is in contact with its device before every operation of
\* the earlier windows has completed, and at no time are more than
\* concurrent_limit operations in contact with a device.
C11_WindowedDispatch ==
    /\ Cardinality(Connected) <= batch_limit
    /\ \A i, j \in DOMAIN tasks :
            (WindowOf(i) < WindowOf(j) /\ tasks[j].st = "connected") =>
                tasks[i].st = "done"

\* What does hold of the concurrency: both dispatchers keep the number of
\* open connections within the limit, and process_devices_batch creates the
\* operations of a window only when those of every earlier window are done.
ConnectionsBounded == Cardinality(Connected) <= batch_limit

WindowsInProcessDevicesBatch ==
    dispatcher = "process_devices_batch" =>
        /\ Cardinality({i \in DOMAIN tasks :
                tasks[i].st \in {"queued", "connected"}}) <= batch_limit
        /\ \A i, j \in DOMAIN tasks :
                (WindowOf(i) < WindowOf(j) /\ tasks[j].st # "unstarted") =>
                    tasks[i].st = "done"

\* -------------------------------------------- claims on the range probe
\* the batch of the range that address ip falls in
BatchOf(ip) == (ip - 1) \div concurrent_limit

ProbeRunning(ip) ==
    probeLog[ip] # <<>> /\ probeLog[ip][Len(probeLog[ip])] = "inflight"

ProbeEnded(ip) ==
    probeLog[ip] # <<>> /\ probeLog[ip][Len(probeLog[ip])] # "inflight"

\* scan_network has returned
ScanReturned ==
    \/ pc = "scan" /\ batchStart >= NumIps
    \/ pc \in {"save", "done", "failed"}

\* C12: a range probe takes the addresses in consecutive batches of at most
\* concurrent_limit addresses; no probe of a later batch is started until
\* every probe of the earlier batches has completed, so the probes in flight
\* never exceed concurrent_limit; every address is probed exactly once.
C12_ProbeBatches ==
    /\ inflight = {ip \in IPs : ProbeRunning(ip)}
    /\ Cardinality(inflight) <= concurrent_limit
    /\ \A ip, jp \in IPs :
            /\ (ProbeRunning(ip) /\ ProbeRunning(jp)) => BatchOf(ip) = BatchOf(jp)
            /\ (BatchOf(ip) < BatchOf(jp) /\ probeLog[jp] # <<>>) => ProbeEnded(ip)
    /\ \A ip \in IPs : Len(probeLog[ip]) <= 1
    /\ ScanReturned => \A ip \in IPs : Len(probeLog[ip]) = 1 /\ ProbeEnded(ip)

\* a range of more than one batch has been probed to its end
C12_Witness ==
    /\ pc = "scan"
    /\ batchStart >= NumIps
    /\ concurrent_limit < NumIps

\* the records the run holds for address ip: in the batch being gathered
\* and in discovered_devices
RecordsFor(ip) ==
    (IF ip \in DOMAIN results THEN {results[ip][i] : i \in DOMAIN results[ip]} ELSE {})
    \cup {discovered_devices[i].v : i \in {j \in DOMAIN discovered_devices :
                                            discovered_devices[j].v.ip_address = ip}}

\* C13: a probe that ends with a non-200 response, a timeout or a transport
\* failure yields no record and leaves the error tally unchanged; one that
\* ends with another exception yields no record and adds exactly one to the
\* tally; the other probes still run to completion.
C13_ProbeFailuresContained ==
    /\ scan_stats.errors =
            Cardinality({ip \in IPs : probeLog[ip] # <<>> /\ probeLog[ip][1] = "error"})
    /\ \A ip \in IPs :
            (ProbeEnded(ip) /\ probeLog[ip][1] \in {"none", "error"}) =>
                RecordsFor(ip) = {}
    /\ ScanReturned =>
            /\ \A ip \in IPs : ProbeEnded(ip)
            /\ scan_stats.scanned = NumIps

\* a run is complete in which the probe of the first address raised an
\* unexpected exception and the probe of the last address found a device
C13_Witness ==
    /\ pc = "done"
    /\ probeLog[1] = <<"error">>
    /\ probeLog[NumIps] = <<"found">>
    /\ scan_stats.errors = 1
    /\ discovered_devices # <<>>

\* once a batch is being gathered the run goes on to its end, whatever the
\* probes return
C13_RunCompletes == (pc = "gather") ~> (pc \in {"done", "failed"})

\* C14: within a scan cycle the merge and the write of the registry file
\* happen only after the last batch has drained: no probe is in flight and
\* every address has been probed when the map is merged or the file written,
\* and the file is written by run's save alone.
C14_RegistryAfterDrain ==
    [][((pc # "save" /\ pc' = "save") \/ mapFile' # mapFile) =>
            /\ inflight = {}
            /\ \A ip \in IPs : ProbeEnded(ip)
            /\ batchStart >= NumIps
            /\ mapFile' # mapFile =>
                    (pc = "save" /\ mapFile' = <<save_device_map(final_map, mode, now)>>)]_vars

\* a run of more than one batch has written a registry with a device in it
C14_Witness ==
    /\ pc = "done"
    /\ concurrent_limit < NumIps
    /\ FileDevices # <<>>
    /\ FileDevices[1].last_seen = now

\* ------------------------------------------ claims on the batch playback
\* the sub-operations of the k-th device_id that ended with HTTP 200
Succeeded(k) == {t \in DOMAIN subops[k] : subops[k][t].response = "200"}

\* the k-th device_id was found in the registry
Handled(k) == api_results[k].status # "not_found"

\* C15: a composite batch operation reports success for a device only if
\* every sub-operation (tracks 0, 1 and 2) was issued to the device and
\* succeeded with HTTP 200, for every value of the requested action.
C15_SuccessOnlyIfAllSucceeded ==
    ppc = "responded" =>
        \A k \in DOMAIN api_results :
            api_results[k].status = "success" =>
                /\ Len(subops[k]) = NumTracks
                /\ Cardinality(Succeeded(k)) = NumTracks

\* C16: a composite operation is reported as partial exactly when some but
\* not all of its sub-operations succeeded, as success when all succeeded
\* and as error when none succeeded.
C16_PartialIsThirdState ==
    ppc = "responded" =>
        \A k \in DOMAIN api_results :
            Handled(k) =>
                /\ api_results[k].status = "partial" <=>
                        (0 < Cardinality(Succeeded(k)) /\
                         Cardinality(Succeeded(k)) < NumTracks)
                /\ api_results[k].status = "success" <=>
                        Cardinality(Succeeded(k)) = NumTracks
                /\ api_results[k].status = "error" <=>
                        Cardinality(Succeeded(k)) = 0

\* What does hold of the reported status: for the four actions the handler
\* knows, success is reported exactly when all three sub-operations were
\* issued and returned 200, and partial exactly when at least one of them
\* failed, the case of all three failing included.
StatusForKnownAction ==
    (ppc = "responded" /\ action \in {"play", "start", "stop", "pause"}) =>
        \A k \in DOMAIN api_results :
            Handled(k) =>
                /\ Len(subops[k]) = NumTracks
                /\ api_results[k].status = "success" <=>
                        Cardinality(Succeeded(k)) = NumTracks
                /\ api_results[k].status = "partial" <=>
                        Cardinality(Succeeded(k)) < NumTracks

\* ------------------------------------------------ claims on id_manager
ProvisionReturned ==
    command = "provision-single" /\ id_pc = "returned" /\ network_range = "valid"

\* C17: single-device provisioning probes the whole range and then: with no
\* responding device it fails and posts no ID change; with two or more it
\* fails, lists all of them and posts no ID change; with exactly one it posts
\* exactly one ID change, to that device, and succeeds only if the post
\* returns HTTP 200.
C17_ProvisionExactlyOne ==
    ProvisionReturned =>
        /\ probes_sent = IpList(1, NumIps)
        /\ {found_devices[i].ip_address : i \in DOMAIN found_devices} = responders
        /\ Cardinality(responders) = 0 => (id_ret = <<FALSE>> /\ id_posts = <<>>)
        /\ Cardinality(responders) >= 2 =>
                /\ id_ret = <<FALSE>>
                /\ id_posts = <<>>
                /\ Len(found_devices) = Cardinality(responders)
        /\ Cardinality(responders) = 1 =>
                /\ Len(id_posts) = 1
                /\ id_posts[1].ip_address \in responders
                /\ id_posts[1].id = new_id
                /\ id_ret = <<id_posts[1].response = "200">>

\* provisioning has ended with one device found, the post refused with a 500
C17_Witness ==
    /\ ProvisionReturned
    /\ Cardinality(responders) = 1
    /\ NumIps \in responders
    /\ id_posts # <<>>
    /\ id_posts[1].response = "500"

\* the list with the devices at positions a and b exchanged; every order of
\* a list is reached by such exchanges
Exchanged(list, a, b) ==
    [k \in DOMAIN list |->
        IF k = a THEN list[b] ELSE IF k = b THEN list[a] ELSE list[k]]

Planned == command = "auto-assign" /\ id_pc \in {"confirm", "returned"}

C18_SkipWitness ==
    /\ Planned
    /\ start_num = 1
    /\ Len(id_devices) = 2
    /\ id_devices[1].id = FormatId(prefix, 1)
    /\ id_devices[1].mac_address = MacStr(1, FALSE)
    /\ id_devices[1].online
    /\ Len(assignments) = 1
    /\ assignments[1].mac = MacStr(2, FALSE)

\* the address of the device of the map file with the given MAC
AddressOf(mac) ==
    LET i == CHOOSE i \in DOMAIN id_devices : id_devices[i].mac_address = mac
    IN  id_devices[i].ip_address

Confirmed == confirm_response \in {<<"y">>, <<"Y">>}

\* C19: auto-assign posts no ID change before the operator has confirmed the
\* plan and none if the operator declines; after the confirmation every
\* planned assignment is attempted exactly once, one at a time in plan
\* order, a failed one does not stop the later ones, and the success tally
\* is the number of assignments that succeeded.
C19_ConfirmThenAssignAll ==
    command = "auto-assign" =>
        /\ ~Confirmed => (id_posts = <<>> /\ success_count = 0)
        /\ id_pc \in {"call", "confirm"} => id_posts = <<>>
        /\ Len(id_posts) <= Len(assignments)
        /\ id_pc = "assign" => Len(id_posts) = assign_idx - 1
        /\ \A k \in DOMAIN id_posts :
                /\ id_posts[k].id = assignments[k].new_id
                /\ id_posts[k].ip_address = AddressOf(assignments[k].mac)
        /\ success_count =
                Cardinality({k \in DOMAIN id_posts : id_posts[k].response = "200"})
        /\ (id_pc = "returned" /\ Confirmed) => Len(id_posts) = Len(assignments)

\* a confirmed plan of several assignments has been executed to its end
\* although the first assignment failed, and a later one succeeded
C19_Witness ==
    /\ command = "auto-assign"
    /\ id_pc = "returned"
    /\ confirm_response = <<"Y">>
    /\ Len(assignments) >= 2
    /\ id_posts[1].response = "Timeout"
    /\ id_posts[Len(assignments)].response = "200"
    /\ success_count = 1

\* the operator declined a plan
C19_DeclinedWitness ==
    /\ command = "auto-assign"
    /\ id_pc = "returned"
    /\ confirm_response = <<"yes">>
    /\ assignments # <<>>

\* the MAC of the set-id command is the MAC of a device of the map file,
\* in whichever case it was typed
InRegistry ==
    \E i \in DOMAIN id_devices :
        id_devices[i].mac_address.addr = mac_address[1].addr

\* the new id is carried by a device other than the one addressed
Collides ==
    \E i \in DOMAIN id_devices :
        /\ id_devices[i].id = new_id
        /\ id_devices[i].mac_address.addr # mac_address[1].addr

C20_NotFoundWitness ==
    /\ command = "set-id"
    /\ id_pc = "returned"
    /\ ~InRegistry
    /\ id_devices # <<>>

\* ------------------------------------------- claims on lookups by logical id
FoundDuplicates == command = "find-duplicates" /\ id_pc = "returned"

\* the devices of the map file that carry the id, in file order
Carrying(id) == SelectSeq(id_devices, LAMBDA d : d.id = id)

LookedUp == lookup_pc = "returned"

\* the devices of the loaded map that carry the id asked for
Matching == SelectSeq(map_devices, LAMBDA d : d.id = device_id[1])

\* C22: when the id an operation is addressed by is carried by more than
\* one device of the map, the operation does not go on with one of them: it
\* fails and reports that several devices match.
C22_DuplicateNeverPicked ==
    (LookedUp /\ Len(Matching) > 1) =>
        /\ selected = <<>>
        /\ lookup_errors # <<>>

\* identify_device refuses an id that several devices carry
IdentifyRefusesDuplicates ==
    (LookedUp /\ lookup_tool = "id_manager") =>
        /\ Len(Matching) > 1 => selected = <<>> /\ lookup_errors = <<"multiple devices">>
        /\ Len(Matching) = 1 => selected = <<Matching[1]>>
        /\ Len(Matching) = 0 => selected = <<>> /\ lookup_errors = <<"not found">>

\* load_device takes the first match and get_device the last, without a word
FirstOrLastPicked ==
    (LookedUp /\ Len(Matching) > 1) =>
        /\ lookup_tool = "device_controller" =>
                selected = <<Matching[1]>> /\ lookup_errors = <<>>
        /\ lookup_tool = "scape_server" =>
                selected = <<Matching[Len(Matching)]>> /\ lookup_errors = <<>>

\* ------------------------------------------ claims on the server's registry
\* the device records of the registry file
PersistedRecords ==
    IF registry_file = <<>> THEN {}
    ELSE IF registry_class = "network_scanner"
    THEN {registry_file[1].devices[i].v : i \in DOMAIN registry_file[1].devices}
    ELSE {registry_file[1].devices[i] : i \in DOMAIN registry_file[1].devices}

\* the device records of the registry in memory
RegistryRecords == {registry_devices[i].v : i \in DOMAIN registry_devices}

\* a registry operation that changes a record, removes one or marks one
\* offline has returned
Mutated == server_op \in {"update", "remove", "offline"}
            \/ (server_op = "volume" /\ http_status = 200)

\* C23: the registry is write-through: when a mutating registry operation
\* has returned, the registry file holds the same device records as the
\* registry in memory.
C23_WriteThrough == Mutated => PersistedRecords = RegistryRecords

\* network_scanner's DeviceRegistry saves after every mutating operation
WriteThroughInNetworkScanner ==
    registry_class = "network_scanner" => PersistedRecords = RegistryRecords

WriteThroughWitness ==
    /\ registry_class = "network_scanner"
    /\ server_op = "offline"
    /\ Len(registry_devices) = 2
    /\ \E i \in DOMAIN registry_devices : registry_devices[i].v.status = "offline"

\* C30: clearing all devices empties the registry: when the clear-all
\* request has answered with a success, after its reload of the registry,
\* the device list of the registry file is empty and so is the registry in
\* memory.
C30_ClearEmptiesRegistry ==
    (server_op = "clear" /\ http_status = 200) =>
        /\ registry_file # <<>>
        /\ registry_file[1].devices = <<>>
        /\ registry_devices = <<>>

\* the file is emptied, and the reload leaves the dict as it was
ClearKeepsMemory ==
    [][ClearAllDevices(TRUE) =>
        /\ registry_file'[1].devices = <<>>
        /\ registry_file'[1].device_count = 0
        /\ registry_devices' = registry_devices]_vars

\* ------------------------------------------------ claims on persistence
\* C24: persisting the registry is atomic: whoever loads the file while it
\* is being saved, or after a crash in the middle of the save, gets the
\* whole previous snapshot or the whole new one, never an empty or cut-off
\* file.
C24_AtomicPersist ==
    \A k \in DOMAIN observed :
        /\ observed[k].ok
        /\ \/ previous # <<>> /\ observed[k].devices = previous[1].devices
           \/ observed[k].devices = output[1].devices

\* a load before the save has opened the file or after it has closed it
\* gets a whole snapshot
WholeOutsideTheWrite ==
    [][(ReadFile /\ save_pc \in {"start", "closed"}) =>
        /\ observed'[Len(observed')].ok
        /\ observed'[Len(observed')].devices =
                IF save_pc = "start" THEN previous[1].devices
                ELSE output[1].devices]_vars

\* C25: every snapshot a scan persists lists exactly one device entry per
\* MAC key of the merged map (that key's record), in ascending order of the
\* numeric IP address, and its device_count is the length of the list.
C25_SnapshotShape ==
    mapFile # <<>> =>
        LET snapshot == mapFile[1]
            devs == snapshot.devices
        IN  /\ snapshot.device_count = Len(devs)
            /\ \A a, b \in DOMAIN devs :
                    /\ a < b => devs[a].ip_address <= devs[b].ip_address
                    /\ devs[a].mac_address = devs[b].mac_address => a = b
            /\ pc = "done" =>
                    /\ Len(devs) = Len(final_map)
                    /\ \A e \in DOMAIN final_map :
                            \E a \in DOMAIN devs :
                                /\ devs[a].mac_address = final_map[e].k
                                /\ devs[a] = final_map[e].v

\* a saved map of two devices whose order in the merged map is not the
\* order of their addresses
C25_Witness ==
    /\ pc = "done"
    /\ mapFile # <<>>
    /\ Len(final_map) = 2
    /\ final_map[1].v.ip_address > final_map[2].v.ip_address
    /\ mapFile[1].devices[1] = final_map[2].v

\* ------------------------------------------- claims on failures and progress
\* the addresses scan_device was called on in this run
Probed == {ip \in IPs : probeLog[ip] # <<>>}

InvalidModeFailsAfterScan ==
    /\ pc = "failed" => Probed = IPs /\ mode \notin Modes
    /\ [][pc' = "failed" => mapFile' = mapFile]_vars

\* C27: every failed result of a dispatch carries what is needed to act on
\* it: a result with success = False holds the device id, the device
\* address and an error that is not None.
C27_FailedResultHasContext ==
    \A k \in DOMAIN batch_results :
        batch_results[k].success = FALSE =>
            /\ "device_id" \in DOMAIN batch_results[k]
            /\ "ip_address" \in DOMAIN batch_results[k]
            /\ batch_results[k].error # "None"

\* the failed results without an error are those of batch_request for a
\* device that answered with a status other than 200
ErrorMissingOnlyForStatus ==
    \A k \in DOMAIN batch_results :
        (batch_results[k].success = FALSE /\ batch_results[k].error = "None") =>
            /\ dispatcher = "batch_request"
            /\ behaviour[k] = "http_error"
            /\ batch_results[k].response = "json"

\* the addresses of the first k batches of this run
FirstBatches(k) ==
    UNION {Batch((j - 1) * concurrent_limit, concurrent_limit) : j \in 1..k}

C28_WideBatchWitness ==
    /\ pc = "done"
    /\ Len(progress) = 1
    /\ progress[1].scanned > 1

\* --------------------------------- claims on the batch_controller filter
\* the devices of the map the ID filter keeps
MatchingFilter ==
    IF filter_id # <<>>
    THEN SelectSeq(controller_devices,
                   LAMBDA d : PatternSearch(filter_id[1], d))
    ELSE controller_devices

\* main has got past its filters: it runs the command or has exited
\* because no device was left
Filtered == filter_pc \in {"filtered", "dispatch"}
            \/ (filter_pc = "exited" /\ map_data # <<>>)

\* C29: with --all-devices the devices the command runs on are all the
\* devices of the map that match the ID filter, offline ones included;
\* without it they are the online ones among these
C29_AllDevicesIncludesOffline ==
    Filtered =>
        devices_local = IF all_devices
                        THEN MatchingFilter
                        ELSE SelectSeq(MatchingFilter, GetOnline)

\* what the code does: with or without --all-devices the command runs on
\* the online devices that match the ID filter
AllDevicesChangesNothing ==
    /\ Filtered => devices_local = SelectSeq(MatchingFilter, GetOnline)
    /\ filter_pc = "dispatch" => dispatch_targets = devices_local

\* --all-devices was given, an offline device matches the filter, and the
\* command ran
OfflineLeftOut ==
    /\ filter_pc = "dispatch"
    /\ all_devices
    /\ \E i \in 1..Len(MatchingFilter) : ~GetOnline(MatchingFilter[i])

\* ------------------------------------------- claims on the planned ids
\* the devices auto_assign_ids left out of the plan because they carry
\* their target already: the online devices without an assignment
KeptIds ==
    {id_devices[i].id : i \in {j \in DOMAIN id_devices :
        /\ id_devices[j].online
        /\ \A k \in DOMAIN assignments :
                assignments[k].mac # id_devices[j].mac_address}}

\* C31: the ids the auto-assign plan gives are pairwise distinct, and none
\* of them is the id kept by a device that was skipped because it already
\* had its target
C31_PlanWithoutDuplicates ==
    Planned =>
        /\ \A a, b \in DOMAIN assignments :
                a # b => assignments[a].new_id # assignments[b].new_id
        /\ \A k \in DOMAIN assignments : assignments[k].new_id \notin KeptIds

\* the half that holds: the planned ids are pairwise distinct
PlannedIdsDistinct ==
    Planned =>
        \A a, b \in DOMAIN assignments :
            a # b => assignments[a].new_id # assignments[b].new_id

\* a skipped device's id is planned for the next device
KeptIdPlannedAgain ==
    /\ Planned
    /\ \E k \in DOMAIN assignments : assignments[k].new_id \in KeptIds

\* ------------------------------------------- claims on the scan cycles
\* every cycle ran to its end and wrote the map
AllExited == \A p \in Cycles : cycle_pc[p] = "exited"

\* the persisted record of the device with MAC m
Persisted(m) ==
    device_map_file[1].devices[
        CHOOSE i \in DOMAIN device_map_file[1].devices :
            device_map_file[1].devices[i].mac_address = m]

\* the MACs that answered in any of the cycles
AnsweredAny == UNION {cycle_answers[p] : p \in Cycles}

\* C32: after scan_all_networks has scanned its networks, one add-mode cycle
\* each on the same map file, every device that answered in any of the
\* networks is in the map with online = true
C32_AllNetworksOnline ==
    (sequential /\ AllExited) =>
        \A m \in AnsweredAny :
            /\ m \in FileKeys(device_map_file)
            /\ Persisted(m).online

\* what the code gives: every device that answered is in the map, and the
\* online ones are those of the network scanned last
LastNetworkOnline ==
    (sequential /\ AllExited) =>
        /\ AnsweredAny \subseteq FileKeys(device_map_file)
        /\ \A m \in FileKeys(device_map_file) :
                Persisted(m).online <=> m \in cycle_answers[NumCycles]

\* a device of the first network is offline in the map after the scan of
\* the second
EarlierNetworkOffline ==
    /\ sequential
    /\ AllExited
    /\ \E m \in cycle_answers[1] : ~Persisted(m).online

\* C33: when two scan cycles on the same map file overlap, every device
\* either of them discovered is in the persisted registry once both have
\* finished
C33_NoLostUpdate ==
    (~sequential /\ AllExited) =>
        AnsweredAny \subseteq FileKeys(device_map_file)

\* what the code gives: the map is the one the last writer wrote, the
\* devices it loaded and those it discovered
LastWriterWins ==
    AllExited =>
        \E p \in Cycles :
            FileKeys(device_map_file) =
                Keys(cycle_existing[p]) \cup cycle_answers[p]

\* both cycles loaded the map before either wrote it, and the device the
\* first writer discovered is not in the map the second wrote
LostUpdate ==
    /\ ~sequential
    /\ AllExited
    /\ \E m \in AnsweredAny : m \notin FileKeys(device_map_file)

\* ------------------------------------------ claims on automatic scanning
\* the background_scan threads that are inside a scan
Scanning == {t \in DOMAIN loop_pc : loop_pc[t] = "scanning"}

\* C34: after any sequence of start_auto_scan and stop_auto_scan events at
\* most one background scan loop is running: a stop followed by a start
\* never leaves two loops scanning
C34_OneBackgroundLoop == Cardinality(Scanning) <= 1

\* what the flag does guard: a start while scan_active is set starts nothing,
\* so threads are started only after a stop
StartOnlyWhenInactive ==
    [][Len(loop_pc') > Len(loop_pc) => ~scan_active /\ scan_active']_vars

\* two background loops are inside a scan at once
TwoLoopsScanning == Cardinality(Scanning) >= 2

\* ------------------------------------- claims on the discovered devices
\* C35: in a range probe every responding address yields its own record in
\* the discovered set: at the end of the scan the found counter equals the
\* number of entries of the discovered map, also when responders report no
\* MAC address or the same MAC
C35_FoundEqualsDiscovered ==
    ScanReturned => scan_stats.found = Len(discovered_devices)

\* what the code gives: found counts the responding addresses, the map
\* holds one entry for each MAC they reported ('UNKNOWN' for none), the
\* record being that of the highest such address
FoundCountsAddresses ==
    ScanReturned =>
        /\ scan_stats.found =
                Cardinality({ip \in IPs : /\ probeLog[ip] # <<>>
                                          /\ probeLog[ip][Len(probeLog[ip])] = "found"})
        /\ Len(discovered_devices) = Cardinality(probedOk)
        /\ \A i \in DOMAIN discovered_devices :
                \A j \in DOMAIN discovered_devices :
                    i # j => discovered_devices[i].k # discovered_devices[j].k

\* two addresses answered and the discovered map holds one record
ResponderLost ==
    /\ ScanReturned
    /\ scan_stats.found = 2
    /\ Len(discovered_devices) = 1

\* ----------------------------------------- claims on the device listing
\* the dict object the registry holds under its i-th key
RegistryObject(i) == registry_heap[registry_refs[i].v]

\* C36: the server's registry holds at most one entry for a physical device:
\* after any device listings, probes and renames no two registry keys map
\* to records with the same MAC address, so the entry under a device's old
\* id is gone once a probe has reported the new one
C36_OneEntryPerMac ==
    \A i, j \in DOMAIN registry_refs :
        i # j => RegistryObject(i).mac_address # RegistryObject(j).mac_address

\* the cause: no key is ever taken out of the registry
KeysAreKept == [][Keys(registry_refs) \subseteq Keys(registry_refs')]_vars

\* a probe reported a new id: the object is in the registry under the old
\* key and under the new one
OldKeyLeft ==
    \E i, j \in DOMAIN registry_refs :
        /\ i # j
        /\ registry_refs[i].v = registry_refs[j].v
        /\ registry_refs[i].k # RegistryObject(i).id
        /\ registry_refs[j].k = RegistryObject(j).id

\* the handler has probed every device of its list
AllProbed == list_pc = "probing" /\ list_idx > Len(listed)

\* C37: when a device listing has probed every registered device, each
\* device's online flag in the registry is its probe outcome: true after
\* an HTTP 200, false otherwise, whatever the flag was before
C37_OnlineIsProbeOutcome ==
    AllProbed =>
        \A i \in DOMAIN listed :
            registry_heap[listed[i]].online <=> probe_outcomes[i].resp = "200"

\* what the code gives for a device that is in the list once: false after
\* a failed probe, and after a 200 the flag it had before
OnlineOnlyCleared ==
    AllProbed =>
        \A i \in DOMAIN listed :
            (\A j \in DOMAIN listed : j # i => listed[j] # listed[i]) =>
                registry_heap[listed[i]].online =
                    IF probe_outcomes[i].resp = "200"
                    THEN probe_outcomes[i].before ELSE FALSE

\* a device the map had offline answered with 200 and is still offline
StaysOffline ==
    /\ AllProbed
    /\ Len(listed) = 1
    /\ probe_outcomes[1].resp = "200"
    /\ ~probe_outcomes[1].before
    /\ ~registry_heap[listed[1]].online

\* ------------------------------------------------ claims on quick_scan
\* the devices of a map file
RecordsOf(file) == {DevicesOf(file)[i] : i \in DOMAIN DevicesOf(file)}

\* C38: a quick scan of known addresses changes only the records of the
\* devices asked for: it adds no MAC to the persisted registry, returns
\* only records with an address of the list, and leaves every persisted
\* record with another address as it was, its online flag included
C38_QuickScanFrame ==
    quick_pc = "returned" =>
        /\ FileKeys(quick_file) \subseteq FileKeys(quick_before)
        /\ \A i \in DOMAIN quick_result :
                quick_result[i].ip_address \in device_ips
        /\ \A d \in RecordsOf(quick_before) :
                d.ip_address \notin device_ips => d \in RecordsOf(quick_file)

\* the two parts that hold: no MAC is added, and the records returned have
\* an address of the list
QuickScanAddsNothing ==
    quick_pc = "returned" =>
        /\ FileKeys(quick_file) = FileKeys(quick_before)
        /\ \A i \in DOMAIN quick_result :
                quick_result[i].ip_address \in device_ips

\* a device that was not asked for and was online in the map is offline in
\* it after the quick scan
BystanderOffline ==
    /\ quick_pc = "returned"
    /\ \E d \in RecordsOf(quick_before) :
            /\ d.ip_address \notin device_ips
            /\ d.online
            /\ SetField(d, "online", FALSE) \in RecordsOf(quick_file)

\* ------------------------------------------- claims on interrupted runs
\* C39: a scan cycle writes the persisted registry at most once, at its very
\* end: the only step that changes the map file is the save that completes
\* the run, so a cycle that is interrupted or fails before it leaves the
\* file exactly as it was when the cycle started
C39_SingleFinalWrite ==
    [][/\ mapFile' # mapFile => pc = "save" /\ pc' = "done"
       /\ pc' = "failed" => mapFile' = mapFile]_vars

\* a run in add mode was interrupted after a device had answered that the
\* map file does not hold
C39_Witness ==
    /\ pc = "failed"
    /\ mode = "add"
    /\ discovered_devices = <<>>
    /\ probedOk # {}
    /\ ~(probedOk \subseteq FileKeys(mapFile))

C40_UpdateWitness ==
    /\ mergePc = "returned"
    /\ argMode = "update"
    /\ Keys(argNew) \ Keys(argExisting) # {}
    /\ Keys(argNew) \cap Keys(argExisting) # {}

\* on the dict objects the first call returns what merge_device_maps gives
\* on the values
FirstCallByValue ==
    remerge_pc = "call" =>
        Deref(MergeObjects(remerge_mode, objects, remerge_existing,
                           remerge_new).heap,
              MergeObjects(remerge_mode, objects, remerge_existing,
                           remerge_new).map)
            = merge_device_maps(remerge_mode,
                                Deref(objects, remerge_existing),
                                Deref(objects, remerge_new))

\* a second call that is given the very dict objects of the first call's
\* `new` returns the first result again in update mode, and in add mode when
\* no MAC was new
SharedObjectsWithoutNewMac ==
    (/\ remerge_pc = "twice"
     /\ \/ remerge_mode = "update"
        \/ Keys(remerge_new) \subseteq Keys(remerge_existing)) =>
        second_result = first_result

\* the first add put a discovered record object into the map as online; the
\* second call, given the same objects, returned it offline
SharedObjectOffline ==
    /\ remerge_pc = "twice"
    /\ remerge_mode = "add"
    /\ \E i \in DOMAIN first_result :
            /\ first_result[i].v.online
            /\ ~second_result[i].v.online

====
